---- MODULE Spec2Model ----
(***************************************************************************)
(* Improved Paint: the annotation store (renderer/store/AppContext.tsx)    *)
(* and the canvas interaction handlers (CanvasEditor) as a state machine.  *)
(* The reducer is a pure operator over the State record; every dispatch    *)
(* site is an action that applies it.                                      *)
(***************************************************************************)
EXTENDS Integers, Sequences, FiniteSets, TLC

VARIABLES
  state,                 \* the useReducer State record
  idGen,                 \* number of ids generateId() has handed out
  multiIds,              \* CanvasEditor multi-selection (useState)
  isDraggingAnnotation,  \* isDraggingAnnotationRef.current
  dragTarget,            \* dragTargetRef.current
  multiDrag,             \* multiDragRef.current
  moveEvents,            \* pointer-move events of the latest drag gesture
  overlay,               \* CanvasEditor: a FloatingOverlay is pending (useState)
  overlayCropMode,       \* overlayCropMode (useState)
  overlayCropRegion,     \* overlayCropRegion (useState)
  overlayDragging,       \* overlayDraggingRef.current
  overlayLoading,        \* tab that was active at the paste whose Image has not fired onload (NoId: none)
  overlayTab,            \* history: tab that was active at the paste the pending overlay came from
  isDrawing,             \* isDrawingRef.current
  drawingShape,          \* drawingShape (useState)
  cropRegion,            \* cropRegion (useState)
  textInput,             \* textInput (useState): the inline text editor
  windowListeners,       \* gestures whose mousemove/mouseup listeners are on window
  openedProject,         \* Sidebar: the document handleOpenProject parsed last
  simplifying,           \* Toolbar: simplifying (useState)
  simplifyTab,           \* activeTab.id in the closure of the pending handleSimplify
  copying,               \* Toolbar: copying (useState)
  copyAwait,             \* the promise the pending handleCopyToClipboard awaits
  decodeFailed,          \* an image of the pending copy failed to decode
  ops                    \* user operations performed so far (exploration budget)

\* the image of a paste that is still decoding, and the tab an overlay came from
pasteVars == <<overlayLoading, overlayTab>>

overlayVars == <<overlay, overlayCropMode, overlayCropRegion, overlayDragging, pasteVars>>

drawVars == <<isDrawing, drawingShape, cropRegion>>

dragVars == <<isDraggingAnnotation, dragTarget, multiDrag, moveEvents>>

\* component-local state of Toolbar: the pending Simplify and Copy calls
toolbarVars == <<simplifying, simplifyTab, copying, copyAwait, decodeFailed>>

\* component-local state of CanvasEditor, Sidebar and Toolbar
canvasVars ==
  <<multiIds, dragVars, overlayVars, drawVars, textInput, windowListeners, openedProject,
    toolbarVars>>

vars == <<state, idGen, canvasVars, ops>>

-----------------------------------------------------------------------------
(* Bounds of the exploration *)

MaxIds == 3

MaxOps == 4

MaxPos == 1

MaxMoves == 2

(* Program constants *)

MAX_HISTORY == 50

IPAINT_VERSION == 1

-----------------------------------------------------------------------------
(* Values *)

NoId == 0

UNDEF == "undefined"

Images == {"imgA", "imgB"}

Pos == 0..MaxPos

\* state.tool values; arrow draws as rect does
Tools == {"select", "step", "text", "rect", "blur", "crop"}

ShapeTools == {"rect", "arrow", "blur"}

\* Offsets of the pointer from where it went down, in image pixels
Extents == {-6, 4, 5, 6}

\* A DrawingShape { x1, y1, x2, y2 }, or null
NoRegion == [present |-> FALSE, x1 |-> 0, y1 |-> 0, x2 |-> 0, y2 |-> 0]

regionAt(x, y) == [present |-> TRUE, x1 |-> x, y1 |-> y, x2 |-> x, y2 |-> y]

abs(n) == IF n < 0 THEN -n ELSE n

\* Strings the inline text editor may hold, as sequences of characters
TextValues == {<<>>, <<" ">>, <<"a">>, <<" ", "b", " ">>, <<"a", "b">>}

isWhitespace(c) == c \in {" ", "\t", "\n"}

\* Variant: the value is taken as typed
trim_asTyped(v) == v

\* String.prototype.trim
RECURSIVE trim(_)
trim(v) ==
  IF v = <<>> THEN v
  ELSE IF isWhitespace(Head(v)) THEN trim(Tail(v))
  ELSE IF isWhitespace(v[Len(v)]) THEN trim(SubSeq(v, 1, Len(v) - 1))
  ELSE v

\* textInput: { x, editingId?, value }, or null
NoTextInput == [present |-> FALSE, x |-> 0, editingId |-> NoId, value |-> <<>>]

Truthy(v) == v \notin {UNDEF, ""}

OrElse(a, b) == IF Truthy(a) THEN a ELSE b

EmptyMap == [k \in {} |-> 0]

Get(f, k, d) == IF k \in DOMAIN f THEN f[k] ELSE d

\* Variant: the record written is the only one the map keeps
Put_keepingOnlyKey(f, k, v) == [x \in {k} |-> v]

Put(f, k, v) == [x \in (DOMAIN f) \cup {k} |-> IF x = k THEN v ELSE f[x]]

Drop(f, k) == [x \in (DOMAIN f) \ {k} |-> f[x]]

NumOr1(f, k) == IF k \in DOMAIN f /\ f[k] # 0 THEN f[k] ELSE 1

Max2(a, b) == IF a >= b THEN a ELSE b

Min2(a, b) == IF a <= b THEN a ELSE b

\* Array.prototype.slice(start): a negative start counts from the end
sliceFrom(seq, start) ==
  LET n == Len(seq)
      b == IF start < 0 THEN Max2(n + start, 0) ELSE Min2(start, n)
  IN SubSeq(seq, b + 1, n)

\* Array.prototype.slice(0, -1)
sliceButLast(seq) == SubSeq(seq, 1, Len(seq) - 1)

MapSeq(seq, F(_)) == [i \in 1..Len(seq) |-> F(seq[i])]

Ids(seq) == [i \in 1..Len(seq) |-> seq[i].id]

Range(seq) == {seq[i] : i \in 1..Len(seq)}

HasId(seq, id) == \E i \in 1..Len(seq) : seq[i].id = id

WithoutId(seq, id) == SelectSeq(seq, LAMBDA e : e.id # id)

EmptyHistory == [undoStack |-> <<>>, redoStack |-> <<>>]

HasTab(s, t) == \E i \in 1..Len(s.tabs) : s.tabs[i].id = t

\* tabs.find(t => t.id === id): the first match
FindTab(s, t) == s.tabs[CHOOSE i \in 1..Len(s.tabs) :
                    s.tabs[i].id = t /\ \A j \in 1..(i - 1) : s.tabs[j].id # t]

SetTabImage(tabs, t, img, thumb) ==
  [i \in 1..Len(tabs) |->
     IF tabs[i].id = t THEN [tabs[i] EXCEPT !.imageDataURL = img, !.thumbnail = thumb]
     ELSE tabs[i]]

-----------------------------------------------------------------------------
(* utils/canvas.ts *)

romans == <<"I", "II", "III", "IV", "V", "VI", "VII", "VIII", "IX", "X",
            "XI", "XII", "XIII", "XIV", "XV", "XVI", "XVII", "XVIII", "XIX", "XX">>

formatStepLabel(n, style) ==
  IF style = "decimal" THEN ToString(n) \o "."
  ELSE IF (n - 1) \in 0..(Len(romans) - 1) THEN romans[n] \o "."
  ELSE ToString(n) \o "."

-----------------------------------------------------------------------------
(* store/AppContext.tsx *)

initialState ==
  [tabs |-> <<>>, activeTabId |-> NoId,
   stepIndicators |-> EmptyMap, shapes |-> EmptyMap, textAnnotations |-> EmptyMap,
   drawOrder |-> EmptyMap, history |-> EmptyMap,
   tool |-> "select", stepStyle |-> "decimal", nextStepNumber |-> EmptyMap,
   selectedId |-> NoId, selectedKind |-> "null"]

snapshot(s, tabId) ==
  [stepIndicators |-> Get(s.stepIndicators, tabId, <<>>),
   shapes |-> Get(s.shapes, tabId, <<>>),
   textAnnotations |-> Get(s.textAnnotations, tabId, <<>>),
   nextStepNumber |-> NumOr1(s.nextStepNumber, tabId),
   drawOrder |-> Get(s.drawOrder, tabId, <<>>),
   imageDataURL |-> UNDEF,
   thumbnail |-> UNDEF]

\* Variant: the push leaves the redo stack as it is
pushUndoKeepingRedo(s, tabId) ==
  LET current == snapshot(s, tabId)
      hist == Get(s.history, tabId, EmptyHistory)
  IN Put(s.history, tabId,
         [undoStack |-> Append(sliceFrom(hist.undoStack, 1 - MAX_HISTORY), current),
          redoStack |-> hist.redoStack])

\* Variant: the push keeps MAX_HISTORY old entries, slice(-MAX_HISTORY)
pushUndoKeepingOneMore(s, tabId) ==
  LET current == snapshot(s, tabId)
      hist == Get(s.history, tabId, EmptyHistory)
  IN Put(s.history, tabId,
         [undoStack |-> Append(sliceFrom(hist.undoStack, 0 - MAX_HISTORY), current),
          redoStack |-> <<>>])

pushUndo(s, tabId) ==
  LET current == snapshot(s, tabId)
      hist == Get(s.history, tabId, EmptyHistory)
  IN Put(s.history, tabId,
         [undoStack |-> Append(sliceFrom(hist.undoStack, 1 - MAX_HISTORY), current),
          redoStack |-> <<>>])

ADD_TAB(s, a) ==
  [s EXCEPT !.tabs = Append(@, a.tab),
            !.activeTabId = a.tab.id,
            !.stepIndicators = Put(@, a.tab.id, <<>>),
            !.shapes = Put(@, a.tab.id, <<>>),
            !.textAnnotations = Put(@, a.tab.id, <<>>),
            !.drawOrder = Put(@, a.tab.id, <<>>),
            !.history = Put(@, a.tab.id, EmptyHistory),
            !.nextStepNumber = Put(@, a.tab.id, 1)]

REMOVE_TAB(s, a) ==
  LET tabs == SelectSeq(s.tabs, LAMBDA t : t.id # a.id)
      idx == IF HasTab(s, a.id)
             THEN (CHOOSE i \in 1..Len(s.tabs) :
                     s.tabs[i].id = a.id /\ \A j \in 1..(i - 1) : s.tabs[j].id # a.id) - 1
             ELSE -1
      pick == Min2(idx, Len(tabs) - 1)
      activeTabId == IF s.activeTabId = a.id
                     THEN (IF pick \in 0..(Len(tabs) - 1) THEN tabs[pick + 1].id ELSE NoId)
                     ELSE s.activeTabId
  IN [s EXCEPT !.tabs = tabs, !.activeTabId = activeTabId,
               !.stepIndicators = Drop(@, a.id), !.shapes = Drop(@, a.id),
               !.textAnnotations = Drop(@, a.id), !.drawOrder = Drop(@, a.id),
               !.history = Drop(@, a.id), !.nextStepNumber = Drop(@, a.id)]

SET_ACTIVE_TAB(s, a) ==
  [s EXCEPT !.activeTabId = a.id, !.selectedId = NoId, !.selectedKind = "null"]

UPDATE_TAB_IMAGE(s, a) ==
  [s EXCEPT !.tabs = SetTabImage(@, a.id, a.imageDataURL, a.thumbnail)]

SET_TOOL(s, a) ==
  [s EXCEPT !.tool = a.tool, !.selectedId = NoId, !.selectedKind = "null"]

SET_STEP_STYLE(s, a) == [s EXCEPT !.stepStyle = a.style]

SET_SELECTION(s, a) == [s EXCEPT !.selectedId = a.id, !.selectedKind = a.kind]

ADD_STEP_INDICATOR(s, a) ==
  [s EXCEPT !.history = pushUndo(s, a.tabId),
            !.stepIndicators = Put(@, a.tabId, Append(Get(@, a.tabId, <<>>), a.indicator)),
            !.nextStepNumber = Put(@, a.tabId, NumOr1(@, a.tabId) + 1),
            !.drawOrder = Put(@, a.tabId, Append(Get(@, a.tabId, <<>>), a.indicator.id))]

ADD_SHAPE(s, a) ==
  [s EXCEPT !.history = pushUndo(s, a.tabId),
            !.shapes = Put(@, a.tabId, Append(Get(@, a.tabId, <<>>), a.shape)),
            !.drawOrder = Put(@, a.tabId, Append(Get(@, a.tabId, <<>>), a.shape.id))]

\* Variant: the first shape is added as by ADD_SHAPE, the others after it,
\* each push recording an undo entry
ADD_SHAPES_oneByOne(s, a) ==
  LET first == ADD_SHAPE(s, [tabId |-> a.tabId, shape |-> a.shapes[1]])
      rest == Tail(a.shapes)
  IN IF rest = <<>> THEN first
     ELSE [first EXCEPT !.history = pushUndo(first, a.tabId),
                        !.shapes = Put(@, a.tabId, Get(@, a.tabId, <<>>) \o rest),
                        !.drawOrder = Put(@, a.tabId, Get(@, a.tabId, <<>>) \o Ids(rest))]

ADD_SHAPES(s, a) ==
  [s EXCEPT !.history = pushUndo(s, a.tabId),
            !.shapes = Put(@, a.tabId, Get(@, a.tabId, <<>>) \o a.shapes),
            !.drawOrder = Put(@, a.tabId, Get(@, a.tabId, <<>>) \o Ids(a.shapes))]

ADD_TEXT_ANNOTATION(s, a) ==
  [s EXCEPT !.history = pushUndo(s, a.tabId),
            !.textAnnotations = Put(@, a.tabId, Append(Get(@, a.tabId, <<>>), a.annotation)),
            !.drawOrder = Put(@, a.tabId, Append(Get(@, a.tabId, <<>>), a.annotation.id))]

\* { ...t, ...changes }
spread(t, changes) ==
  [k \in (DOMAIN t) \cup (DOMAIN changes) |-> IF k \in DOMAIN changes THEN changes[k] ELSE t[k]]

\* list.map(t => t.id === id ? { ...t, ...changes } : t)
Moved(seq, id, changes) ==
  [i \in 1..Len(seq) |-> IF seq[i].id = id THEN spread(seq[i], changes) ELSE seq[i]]

UPDATE_TEXT_ANNOTATION(s, a) ==
  [s EXCEPT !.history = IF a.skipUndo THEN s.history ELSE pushUndo(s, a.tabId),
            !.textAnnotations = Put(@, a.tabId, Moved(Get(@, a.tabId, <<>>), a.id, a.changes))]

UPDATE_SHAPE(s, a) ==
  [s EXCEPT !.history = IF a.skipUndo THEN s.history ELSE pushUndo(s, a.tabId),
            !.shapes = Put(@, a.tabId, Moved(Get(@, a.tabId, <<>>), a.id, a.changes))]

UPDATE_STEP_INDICATOR(s, a) ==
  [s EXCEPT !.history = IF a.skipUndo THEN s.history ELSE pushUndo(s, a.tabId),
            !.stepIndicators = Put(@, a.tabId, Moved(Get(@, a.tabId, <<>>), a.id, a.changes))]

PUSH_UNDO(s, a) == [s EXCEPT !.history = pushUndo(s, a.tabId)]

\* Variant: the counter goes down whatever kind of annotation is removed
REMOVE_ANNOTATION_alwaysDecrementing(s, a) ==
  LET currentNum == NumOr1(s.nextStepNumber, a.tabId)
  IN [s EXCEPT !.history = pushUndo(s, a.tabId),
               !.stepIndicators = Put(@, a.tabId, WithoutId(Get(@, a.tabId, <<>>), a.annotationId)),
               !.shapes = Put(@, a.tabId, WithoutId(Get(@, a.tabId, <<>>), a.annotationId)),
               !.textAnnotations = Put(@, a.tabId, WithoutId(Get(@, a.tabId, <<>>), a.annotationId)),
               !.nextStepNumber = Put(@, a.tabId, Max2(1, currentNum - 1)),
               !.drawOrder = Put(@, a.tabId,
                                 SelectSeq(Get(@, a.tabId, <<>>), LAMBDA id : id # a.annotationId))]

\* Variant: removing a step leaves the counter where it is
REMOVE_ANNOTATION_keepingCounter(s, a) ==
  [s EXCEPT !.history = pushUndo(s, a.tabId),
            !.stepIndicators = Put(@, a.tabId, WithoutId(Get(@, a.tabId, <<>>), a.annotationId)),
            !.shapes = Put(@, a.tabId, WithoutId(Get(@, a.tabId, <<>>), a.annotationId)),
            !.textAnnotations = Put(@, a.tabId, WithoutId(Get(@, a.tabId, <<>>), a.annotationId)),
            !.drawOrder = Put(@, a.tabId,
                              SelectSeq(Get(@, a.tabId, <<>>), LAMBDA id : id # a.annotationId))]

REMOVE_ANNOTATION(s, a) ==
  LET allSteps == Get(s.stepIndicators, a.tabId, <<>>)
      wasStep == HasId(allSteps, a.annotationId)
      currentNum == NumOr1(s.nextStepNumber, a.tabId)
  IN [s EXCEPT !.history = pushUndo(s, a.tabId),
               !.stepIndicators = Put(@, a.tabId, WithoutId(allSteps, a.annotationId)),
               !.shapes = Put(@, a.tabId, WithoutId(Get(@, a.tabId, <<>>), a.annotationId)),
               !.textAnnotations = Put(@, a.tabId, WithoutId(Get(@, a.tabId, <<>>), a.annotationId)),
               !.nextStepNumber = Put(@, a.tabId,
                                      IF wasStep THEN Max2(1, currentNum - 1) ELSE currentNum),
               !.drawOrder = Put(@, a.tabId,
                                 SelectSeq(Get(@, a.tabId, <<>>), LAMBDA id : id # a.annotationId))]

\* The undo entry CROP_IMAGE and COMMIT_IMAGE_CHANGE build: scene plus the tab's raster
imageHistory(s, tabId) ==
  LET tab == FindTab(s, tabId)
      snapWithImage == [snapshot(s, tabId) EXCEPT !.imageDataURL = tab.imageDataURL,
                                                  !.thumbnail = tab.thumbnail]
      hist == Get(s.history, tabId, EmptyHistory)
  IN Put(s.history, tabId,
         [undoStack |-> Append(sliceFrom(hist.undoStack, 1 - MAX_HISTORY), snapWithImage),
          redoStack |-> <<>>])

\* Variant: the crop records the scene only, without the tab's raster
CROP_IMAGE_withoutImageInHistory(s, a) ==
  IF ~HasTab(s, a.tabId) THEN s
  ELSE [s EXCEPT !.tabs = SetTabImage(@, a.tabId, a.imageDataURL, a.thumbnail),
                 !.stepIndicators = Put(@, a.tabId, <<>>),
                 !.shapes = Put(@, a.tabId, <<>>),
                 !.textAnnotations = Put(@, a.tabId, <<>>),
                 !.nextStepNumber = Put(@, a.tabId, 1),
                 !.drawOrder = Put(@, a.tabId, <<>>),
                 !.history = pushUndo(s, a.tabId)]

CROP_IMAGE(s, a) ==
  IF ~HasTab(s, a.tabId) THEN s
  ELSE [s EXCEPT !.tabs = SetTabImage(@, a.tabId, a.imageDataURL, a.thumbnail),
                 !.stepIndicators = Put(@, a.tabId, <<>>),
                 !.shapes = Put(@, a.tabId, <<>>),
                 !.textAnnotations = Put(@, a.tabId, <<>>),
                 !.nextStepNumber = Put(@, a.tabId, 1),
                 !.drawOrder = Put(@, a.tabId, <<>>),
                 !.history = imageHistory(s, a.tabId)]

COMMIT_IMAGE_CHANGE(s, a) ==
  IF ~HasTab(s, a.tabId) THEN s
  ELSE [s EXCEPT !.tabs = SetTabImage(@, a.tabId, a.imageDataURL, a.thumbnail),
                 !.history = imageHistory(s, a.tabId)]

\* Variant: the duplicate takes the source's history along with its scene
DUPLICATE_TAB_withHistory(s, a) ==
  IF ~HasTab(s, a.sourceTabId) THEN s
  ELSE LET newId == a.newTab.id
           src == a.sourceTabId
       IN [s EXCEPT !.tabs = Append(@, a.newTab),
                    !.activeTabId = newId,
                    !.stepIndicators = Put(@, newId, Get(@, src, <<>>)),
                    !.shapes = Put(@, newId, Get(@, src, <<>>)),
                    !.textAnnotations = Put(@, newId, Get(@, src, <<>>)),
                    !.drawOrder = Put(@, newId, Get(@, src, <<>>)),
                    !.history = Put(@, newId, Get(@, src, EmptyHistory)),
                    !.nextStepNumber = Put(@, newId, NumOr1(@, src))]

DUPLICATE_TAB(s, a) ==
  IF ~HasTab(s, a.sourceTabId) THEN s
  ELSE LET newId == a.newTab.id
           src == a.sourceTabId
       IN [s EXCEPT !.tabs = Append(@, a.newTab),
                    !.activeTabId = newId,
                    !.stepIndicators = Put(@, newId, Get(@, src, <<>>)),
                    !.shapes = Put(@, newId, Get(@, src, <<>>)),
                    !.textAnnotations = Put(@, newId, Get(@, src, <<>>)),
                    !.drawOrder = Put(@, newId, Get(@, src, <<>>)),
                    !.history = Put(@, newId, EmptyHistory),
                    !.nextStepNumber = Put(@, newId, NumOr1(@, src))]

\* The scene and image a popped snapshot puts back (shared by UNDO and REDO)
restore(s, tabId, snap, undoStack, redoStack) ==
  LET newState ==
        [s EXCEPT !.stepIndicators = Put(@, tabId, snap.stepIndicators),
                  !.shapes = Put(@, tabId, snap.shapes),
                  !.textAnnotations = Put(@, tabId, snap.textAnnotations),
                  !.nextStepNumber = Put(@, tabId, snap.nextStepNumber),
                  !.drawOrder = Put(@, tabId, snap.drawOrder),
                  !.history = Put(@, tabId, [undoStack |-> undoStack, redoStack |-> redoStack])]
  IN IF Truthy(snap.imageDataURL) /\ HasTab(s, tabId)
     THEN [newState EXCEPT !.tabs =
             SetTabImage(@, tabId, snap.imageDataURL,
                         OrElse(snap.thumbnail, FindTab(s, tabId).thumbnail))]
     ELSE newState

currentWithImage(s, tabId, popped) ==
  IF Truthy(popped.imageDataURL) /\ HasTab(s, tabId)
  THEN [snapshot(s, tabId) EXCEPT !.imageDataURL = FindTab(s, tabId).imageDataURL,
                                  !.thumbnail = FindTab(s, tabId).thumbnail]
  ELSE snapshot(s, tabId)

\* Variant: only a missing history record is guarded; on an empty undo stack
\* the current scene is still moved to the redo stack
UNDO_guardingOnlyMissingRecord(s, a) ==
  IF a.tabId \notin DOMAIN s.history THEN s
  ELSE LET hist == s.history[a.tabId]
           prev == IF Len(hist.undoStack) = 0 THEN snapshot(s, a.tabId)
                   ELSE hist.undoStack[Len(hist.undoStack)]
       IN restore(s, a.tabId, prev,
                  sliceButLast(hist.undoStack),
                  Append(hist.redoStack, currentWithImage(s, a.tabId, prev)))

UNDO(s, a) ==
  IF a.tabId \notin DOMAIN s.history \/ Len(s.history[a.tabId].undoStack) = 0 THEN s
  ELSE LET hist == s.history[a.tabId]
           prev == hist.undoStack[Len(hist.undoStack)]
       IN restore(s, a.tabId, prev,
                  sliceButLast(hist.undoStack),
                  Append(hist.redoStack, currentWithImage(s, a.tabId, prev)))

REDO(s, a) ==
  IF a.tabId \notin DOMAIN s.history \/ Len(s.history[a.tabId].redoStack) = 0 THEN s
  ELSE LET hist == s.history[a.tabId]
           next == hist.redoStack[Len(hist.redoStack)]
       IN restore(s, a.tabId, next,
                  Append(hist.undoStack, currentWithImage(s, a.tabId, next)),
                  sliceButLast(hist.redoStack))

\* new Map(moves.map(m => [m.id, m])): the last entry for an id wins
moveFor(moves, id) ==
  moves[CHOOSE i \in 1..Len(moves) :
          moves[i].id = id /\ \A j \in (i + 1)..Len(moves) : moves[j].id # id]

batchMoved(seq, moves) ==
  [i \in 1..Len(seq) |->
     IF HasId(moves, seq[i].id) THEN spread(seq[i], moveFor(moves, seq[i].id))
     ELSE seq[i]]

BATCH_MOVE(s, a) ==
  [s EXCEPT !.history = IF a.skipUndo THEN s.history ELSE pushUndo(s, a.tabId),
            !.stepIndicators = Put(@, a.tabId, batchMoved(Get(@, a.tabId, <<>>), a.steps)),
            !.shapes = Put(@, a.tabId, batchMoved(Get(@, a.tabId, <<>>), a.shapes)),
            !.textAnnotations = Put(@, a.tabId, batchMoved(Get(@, a.tabId, <<>>), a.texts))]

\* arr.indexOf(id), 1-based; 0 when absent
indexOf(arr, id) ==
  IF \E i \in 1..Len(arr) : arr[i] = id
  THEN CHOOSE i \in 1..Len(arr) : arr[i] = id /\ \A j \in 1..(i - 1) : arr[j] # id
  ELSE 0

\* Variant: the id goes to the end of the order whatever the direction
REORDER_ANNOTATION_alwaysToFront(s, a) ==
  LET arr == Get(s.drawOrder, a.tabId, <<>>)
      idx == indexOf(arr, a.annotationId)
      copy == SubSeq(arr, 1, idx - 1) \o SubSeq(arr, idx + 1, Len(arr))
  IN IF idx = 0 THEN [s EXCEPT !.history = pushUndo(s, a.tabId)]
     ELSE [s EXCEPT !.history = pushUndo(s, a.tabId),
                    !.drawOrder = Put(@, a.tabId, Append(copy, arr[idx]))]

REORDER_ANNOTATION(s, a) ==
  LET arr == Get(s.drawOrder, a.tabId, <<>>)
      idx == indexOf(arr, a.annotationId)
      copy == SubSeq(arr, 1, idx - 1) \o SubSeq(arr, idx + 1, Len(arr))
  IN IF idx = 0 THEN [s EXCEPT !.history = pushUndo(s, a.tabId)]
     ELSE [s EXCEPT !.history = pushUndo(s, a.tabId),
                    !.drawOrder = Put(@, a.tabId,
                                      IF a.direction = "front" THEN Append(copy, arr[idx])
                                      ELSE <<arr[idx]>> \o copy)]

\* Variant: the reconstruction lists the steps first
reconstructedDrawOrder_stepsFirst(pt) ==
  Ids(pt.stepIndicators)
    \o Ids(SelectSeq(pt.shapes, LAMBDA sh : sh.type = "blur"))
    \o Ids(SelectSeq(pt.shapes, LAMBDA sh : sh.type # "blur"))
    \o Ids(pt.textAnnotations)

\* A ProjectTab's optional drawOrder is <<>> when the field is absent and
\* <<order>> when it is present.
reconstructedDrawOrder(pt) ==
  Ids(SelectSeq(pt.shapes, LAMBDA sh : sh.type = "blur"))
    \o Ids(SelectSeq(pt.shapes, LAMBDA sh : sh.type # "blur"))
    \o Ids(pt.stepIndicators)
    \o Ids(pt.textAnnotations)

\* for (const pt of project.tabs) rec[pt.id] = ...: the records are keyed by
\* the tabs' ids, and a later tab overwrites an earlier one with the same id
loadedTabIds(project) ==
  {project.tabs[i].id : i \in 1..Len(project.tabs)}

loadedTab(project, id) ==
  project.tabs[CHOOSE i \in 1..Len(project.tabs) :
                 project.tabs[i].id = id
                 /\ \A j \in (i + 1)..Len(project.tabs) : project.tabs[j].id # id]

LOAD_PROJECT(s, a) ==
  LET project == a.project
      ids == loadedTabIds(project)
  IN [s EXCEPT !.tabs = [i \in 1..Len(project.tabs) |->
                           [id |-> project.tabs[i].id, name |-> project.tabs[i].name,
                            imageDataURL |-> project.tabs[i].imageDataURL,
                            thumbnail |-> project.tabs[i].thumbnail]],
               !.activeTabId = project.activeTabId,
               !.stepIndicators = [id \in ids |-> loadedTab(project, id).stepIndicators],
               !.shapes = [id \in ids |-> loadedTab(project, id).shapes],
               !.textAnnotations = [id \in ids |-> loadedTab(project, id).textAnnotations],
               !.drawOrder = [id \in ids |->
                                LET pt == loadedTab(project, id)
                                IN IF Len(pt.drawOrder) = 1 THEN pt.drawOrder[1]
                                   ELSE reconstructedDrawOrder(pt)],
               !.history = [id \in ids |-> EmptyHistory],
               !.nextStepNumber = [id \in ids |-> loadedTab(project, id).nextStepNumber],
               !.selectedId = NoId, !.selectedKind = "null", !.tool = "select"]

\* Variant: the document is written without the drawOrder field
serializeProject_withoutDrawOrder(s) ==
  [version |-> IPAINT_VERSION,
   activeTabId |-> s.activeTabId,
   tabs |-> [i \in 1..Len(s.tabs) |->
               [id |-> s.tabs[i].id, name |-> s.tabs[i].name,
                imageDataURL |-> s.tabs[i].imageDataURL, thumbnail |-> s.tabs[i].thumbnail,
                stepIndicators |-> Get(s.stepIndicators, s.tabs[i].id, <<>>),
                shapes |-> Get(s.shapes, s.tabs[i].id, <<>>),
                textAnnotations |-> Get(s.textAnnotations, s.tabs[i].id, <<>>),
                nextStepNumber |-> NumOr1(s.nextStepNumber, s.tabs[i].id),
                drawOrder |-> <<>>]]]

serializeProject(s) ==
  [version |-> IPAINT_VERSION,
   activeTabId |-> s.activeTabId,
   tabs |-> [i \in 1..Len(s.tabs) |->
               [id |-> s.tabs[i].id, name |-> s.tabs[i].name,
                imageDataURL |-> s.tabs[i].imageDataURL, thumbnail |-> s.tabs[i].thumbnail,
                stepIndicators |-> Get(s.stepIndicators, s.tabs[i].id, <<>>),
                shapes |-> Get(s.shapes, s.tabs[i].id, <<>>),
                textAnnotations |-> Get(s.textAnnotations, s.tabs[i].id, <<>>),
                nextStepNumber |-> NumOr1(s.nextStepNumber, s.tabs[i].id),
                drawOrder |-> <<Get(s.drawOrder, s.tabs[i].id, <<>>)>>]]]

reducer(s, a) ==
  CASE a.type = "ADD_TAB" -> ADD_TAB(s, a)
    [] a.type = "REMOVE_TAB" -> REMOVE_TAB(s, a)
    [] a.type = "SET_ACTIVE_TAB" -> SET_ACTIVE_TAB(s, a)
    [] a.type = "UPDATE_TAB_IMAGE" -> UPDATE_TAB_IMAGE(s, a)
    [] a.type = "SET_TOOL" -> SET_TOOL(s, a)
    [] a.type = "SET_STEP_STYLE" -> SET_STEP_STYLE(s, a)
    [] a.type = "SET_SELECTION" -> SET_SELECTION(s, a)
    [] a.type = "ADD_STEP_INDICATOR" -> ADD_STEP_INDICATOR(s, a)
    [] a.type = "ADD_SHAPE" -> ADD_SHAPE(s, a)
    [] a.type = "ADD_SHAPES" -> ADD_SHAPES(s, a)
    [] a.type = "ADD_TEXT_ANNOTATION" -> ADD_TEXT_ANNOTATION(s, a)
    [] a.type = "UPDATE_TEXT_ANNOTATION" -> UPDATE_TEXT_ANNOTATION(s, a)
    [] a.type = "UPDATE_SHAPE" -> UPDATE_SHAPE(s, a)
    [] a.type = "UPDATE_STEP_INDICATOR" -> UPDATE_STEP_INDICATOR(s, a)
    [] a.type = "PUSH_UNDO" -> PUSH_UNDO(s, a)
    [] a.type = "REMOVE_ANNOTATION" -> REMOVE_ANNOTATION(s, a)
    [] a.type = "CROP_IMAGE" -> CROP_IMAGE(s, a)
    [] a.type = "COMMIT_IMAGE_CHANGE" -> COMMIT_IMAGE_CHANGE(s, a)
    [] a.type = "DUPLICATE_TAB" -> DUPLICATE_TAB(s, a)
    [] a.type = "UNDO" -> UNDO(s, a)
    [] a.type = "REDO" -> REDO(s, a)
    [] a.type = "LOAD_PROJECT" -> LOAD_PROJECT(s, a)
    [] a.type = "BATCH_MOVE" -> BATCH_MOVE(s, a)
    [] a.type = "REORDER_ANNOTATION" -> REORDER_ANNOTATION(s, a)
    [] OTHER -> s

-----------------------------------------------------------------------------
(* State after construction *)

\* Sidebar.handleOpenProject has parsed no document yet
NoProject == [version |-> 0, activeTabId |-> NoId, tabs |-> <<>>]

NoDragTarget == [kind |-> "null", id |-> NoId, handle |-> "null"]

NoMultiDrag == [active |-> FALSE, startX |-> 0, items |-> <<>>]

\* CanvasEditor, Sidebar and Toolbar as mounted
componentInit ==
  /\ multiIds = <<>>
  /\ isDraggingAnnotation = FALSE
  /\ dragTarget = NoDragTarget
  /\ multiDrag = NoMultiDrag
  /\ moveEvents = 0
  /\ overlay = FALSE
  /\ overlayCropMode = FALSE
  /\ overlayCropRegion = NoRegion
  /\ overlayDragging = FALSE
  /\ overlayLoading = NoId
  /\ overlayTab = NoId
  /\ isDrawing = FALSE
  /\ drawingShape = NoRegion
  /\ cropRegion = NoRegion
  /\ textInput = NoTextInput
  /\ windowListeners = {}
  /\ openedProject = NoProject
  /\ simplifying = FALSE
  /\ simplifyTab = NoId
  /\ copying = FALSE
  /\ copyAwait = "none"
  /\ decodeFailed = FALSE

Init ==
  /\ state = initialState
  /\ idGen = 0
  /\ componentInit
  /\ ops = 0

-----------------------------------------------------------------------------
(* Dispatch sites at store level: each applies the reducer to one action   *)
(* built the way the components build it.                                  *)

TabIds(s) == {s.tabs[i].id : i \in 1..Len(s.tabs)}

\* const activeTab = state.tabs.find(t => t.id === state.activeTabId), as a set
\* of at most one id: the canvas and toolbar handlers return early without it
ActiveTab == {t \in TabIds(state) : t = state.activeTabId}

undoStackOf(s, t) == Get(s.history, t, EmptyHistory).undoStack

redoStackOf(s, t) == Get(s.history, t, EmptyHistory).redoStack

\* One more user operation within the exploration budget
Budget == ops < MaxOps /\ ops' = ops + 1

\* generateId(): a value never returned before
generateId == idGen + 1

dispatch(a) == state' = reducer(state, a)

\* Sidebar.addBlankTab (no image), or Ctrl+V of a clipboard image while no
\* tab is active
AddTab ==
  /\ Budget
  /\ idGen < MaxIds
  /\ Len(state.tabs) < 2
  /\ \E img \in {"", "imgA"} :
       /\ img = "" \/ ActiveTab = {}
       /\ dispatch([type |-> "ADD_TAB",
                 tab |-> [id |-> generateId, name |-> "Screenshot",
                          imageDataURL |-> img, thumbnail |-> ""]])
  /\ idGen' = idGen + 1
  /\ UNCHANGED canvasVars

RemoveTab ==
  /\ Budget
  /\ \E t \in TabIds(state) : dispatch([type |-> "REMOVE_TAB", id |-> t])
  /\ UNCHANGED <<idGen, canvasVars>>

SetActiveTab ==
  /\ Budget
  /\ \E t \in TabIds(state) :
       /\ t # state.activeTabId
       /\ dispatch([type |-> "SET_ACTIVE_TAB", id |-> t])
  /\ UNCHANGED <<idGen, canvasVars>>

\* Ctrl+V of a clipboard image on an active tab that has no image yet
UpdateTabImage ==
  /\ Budget
  /\ HasTab(state, state.activeTabId)
  /\ FindTab(state, state.activeTabId).imageDataURL = ""
  /\ \E img \in Images :
       dispatch([type |-> "UPDATE_TAB_IMAGE", id |-> state.activeTabId,
                 imageDataURL |-> img, thumbnail |-> ""])
  /\ UNCHANGED <<idGen, canvasVars>>

AddStepIndicator ==
  /\ Budget
  /\ idGen < MaxIds
  /\ \E t \in ActiveTab :
       /\ dispatch([type |-> "ADD_STEP_INDICATOR", tabId |-> t,
                    indicator |-> [id |-> generateId, x |-> 0,
                                   label |-> formatStepLabel(NumOr1(state.nextStepNumber, t),
                                                             state.stepStyle),
                                   style |-> state.stepStyle]])
  /\ idGen' = idGen + 1
  /\ UNCHANGED canvasVars

AddShape ==
  /\ Budget
  /\ idGen < MaxIds
  /\ \E t \in ActiveTab, ty \in {"rect", "blur"} :
       /\ dispatch([type |-> "ADD_SHAPE", tabId |-> t,
                    shape |-> [id |-> generateId, type |-> ty, x |-> 0]])
  /\ idGen' = idGen + 1
  /\ UNCHANGED canvasVars

\* handleSimplify: one rect per detected text region of the tab's image, then
\* the select tool
AddShapes ==
  /\ Budget
  /\ idGen + 2 <= MaxIds
  /\ \E t \in ActiveTab :
       /\ Truthy(FindTab(state, t).imageDataURL)
       /\ state' = reducer(reducer(state,
                      [type |-> "ADD_SHAPES", tabId |-> t,
                       shapes |-> <<[id |-> idGen + 1, type |-> "rect", x |-> 0],
                                    [id |-> idGen + 2, type |-> "rect", x |-> 1]>>]),
                      [type |-> "SET_TOOL", tool |-> "select"])
  /\ idGen' = idGen + 2
  /\ UNCHANGED canvasVars

AddTextAnnotation ==
  /\ Budget
  /\ idGen < MaxIds
  /\ \E t \in ActiveTab :
       /\ dispatch([type |-> "ADD_TEXT_ANNOTATION", tabId |-> t,
                    annotation |-> [id |-> generateId, x |-> 0, text |-> <<"a">>]])
  /\ idGen' = idGen + 1
  /\ UNCHANGED canvasVars

UpdateStepIndicatorBy(skip) ==
  /\ Budget
  /\ \E t \in ActiveTab, x \in Pos :
       \E e \in Range(Get(state.stepIndicators, t, <<>>)) :
         dispatch([type |-> "UPDATE_STEP_INDICATOR", tabId |-> t, id |-> e.id,
                   changes |-> [x |-> x], skipUndo |-> skip])
  /\ UNCHANGED <<idGen, canvasVars>>

UpdateStepIndicator == \E skip \in BOOLEAN : UpdateStepIndicatorBy(skip)

UpdateShapeBy(skip) ==
  /\ Budget
  /\ \E t \in ActiveTab, x \in Pos :
       \E e \in Range(Get(state.shapes, t, <<>>)) :
         dispatch([type |-> "UPDATE_SHAPE", tabId |-> t, id |-> e.id,
                   changes |-> [x |-> x], skipUndo |-> skip])
  /\ UNCHANGED <<idGen, canvasVars>>

UpdateShape == \E skip \in BOOLEAN : UpdateShapeBy(skip)

UpdateTextAnnotationBy(skip) ==
  /\ Budget
  /\ \E t \in ActiveTab, x \in Pos :
       \E e \in Range(Get(state.textAnnotations, t, <<>>)) :
         dispatch([type |-> "UPDATE_TEXT_ANNOTATION", tabId |-> t, id |-> e.id,
                   changes |-> [x |-> x], skipUndo |-> skip])
  /\ UNCHANGED <<idGen, canvasVars>>

UpdateTextAnnotation == \E skip \in BOOLEAN : UpdateTextAnnotationBy(skip)

\* Every annotation of the tab moved to x, as align / multi-drag build the lists
movesTo(seq, x) == [i \in 1..Len(seq) |-> [id |-> seq[i].id, x |-> x]]

BatchMoveBy(skip) ==
  /\ Budget
  /\ \E t \in ActiveTab, x \in Pos :
       /\ Len(Get(state.drawOrder, t, <<>>)) >= 2
       /\ dispatch([type |-> "BATCH_MOVE", tabId |-> t,
                    steps |-> movesTo(Get(state.stepIndicators, t, <<>>), x),
                    shapes |-> movesTo(Get(state.shapes, t, <<>>), x),
                    texts |-> movesTo(Get(state.textAnnotations, t, <<>>), x),
                    skipUndo |-> skip])
  /\ UNCHANGED <<idGen, canvasVars>>

BatchMove == \E skip \in BOOLEAN : BatchMoveBy(skip)

pushUndoDispatch ==
  /\ \E t \in ActiveTab : dispatch([type |-> "PUSH_UNDO", tabId |-> t])
  /\ UNCHANGED <<idGen, canvasVars>>

PushUndo == Budget /\ pushUndoDispatch

\* Delete key / context menu: the id may be stale (no longer in the scene)
RemoveAnnotation ==
  /\ Budget
  /\ \E t \in ActiveTab :
       \E id \in (1..idGen) \cup Range(Ids(Get(state.stepIndicators, t, <<>>)))
                  \cup Range(Ids(Get(state.shapes, t, <<>>)))
                  \cup Range(Ids(Get(state.textAnnotations, t, <<>>))) :
       /\ dispatch([type |-> "REMOVE_ANNOTATION", tabId |-> t, annotationId |-> id])
  /\ UNCHANGED <<idGen, canvasVars>>

ReorderAnnotation ==
  /\ Budget
  /\ \E t \in ActiveTab, dir \in {"front", "back"} :
       /\ \E id \in Range(Get(state.drawOrder, t, <<>>)) :
            dispatch([type |-> "REORDER_ANNOTATION", tabId |-> t,
                      annotationId |-> id, direction |-> dir])
  /\ UNCHANGED <<idGen, canvasVars>>

\* applyCrop: needs the decoded image of the active tab (imageRef.current)
CropImage ==
  /\ Budget
  /\ HasTab(state, state.activeTabId)
  /\ Truthy(FindTab(state, state.activeTabId).imageDataURL)
  /\ \E img \in Images :
       dispatch([type |-> "CROP_IMAGE", tabId |-> state.activeTabId,
                 imageDataURL |-> img, thumbnail |-> ""])
  /\ UNCHANGED <<idGen, canvasVars>>

\* commitOverlay: needs the decoded image of the active tab (imageRef.current)
CommitImageChange ==
  /\ Budget
  /\ HasTab(state, state.activeTabId)
  /\ Truthy(FindTab(state, state.activeTabId).imageDataURL)
  /\ \E img \in Images :
       dispatch([type |-> "COMMIT_IMAGE_CHANGE", tabId |-> state.activeTabId,
                 imageDataURL |-> img, thumbnail |-> ""])
  /\ UNCHANGED <<idGen, canvasVars>>

\* handleDuplicate
DuplicateTab ==
  /\ Budget
  /\ idGen < MaxIds
  /\ Len(state.tabs) < 2
  /\ \E t \in TabIds(state) :
       dispatch([type |-> "DUPLICATE_TAB", sourceTabId |-> t,
                 newTab |-> [id |-> generateId, name |-> "Screenshot copy",
                             imageDataURL |-> FindTab(state, t).imageDataURL,
                             thumbnail |-> FindTab(state, t).thumbnail]])
  /\ idGen' = idGen + 1
  /\ UNCHANGED canvasVars

undoDispatch ==
  /\ \E t \in ActiveTab : dispatch([type |-> "UNDO", tabId |-> t])
  /\ UNCHANGED <<idGen, canvasVars>>

Undo == Budget /\ undoDispatch

redoDispatch ==
  /\ \E t \in ActiveTab : dispatch([type |-> "REDO", tabId |-> t])
  /\ UNCHANGED <<idGen, canvasVars>>

Redo == Budget /\ redoDispatch

Next ==
  \/ AddTab
  \/ RemoveTab
  \/ SetActiveTab
  \/ UpdateTabImage
  \/ AddStepIndicator
  \/ AddShape
  \/ AddShapes
  \/ AddTextAnnotation
  \/ UpdateStepIndicator
  \/ UpdateShape
  \/ UpdateTextAnnotation
  \/ BatchMove
  \/ PushUndo
  \/ RemoveAnnotation
  \/ ReorderAnnotation
  \/ CropImage
  \/ CommitImageChange
  \/ DuplicateTab
  \/ Undo
  \/ Redo

Spec == Init /\ [][Next]_vars

-----------------------------------------------------------------------------
(* Opening a project file (Sidebar.handleOpenProject). The file is whatever *)
(* JSON the user picks: only its version field is looked at before its      *)
(* content is dispatched.                                                   *)

\* Orders a file's drawOrder field may hold over the ids b+2 and b+3: none,
\* one or both of them either way round, or the first one twice
fileOrders(b) ==
  {<<>>, <<b + 2>>, <<b + 3>>, <<b + 2, b + 3>>, <<b + 3, b + 2>>, <<b + 2, b + 2>>}

\* Shapes and texts a tab of a file may hold: nothing, a blur shape (id b+3),
\* two blur shapes (ids b+4, b+3), or a rect (id b+4) before the blur shape
\* together with a text (id b+5)
fileShapesAndTexts(b) ==
  {[shapes |-> <<>>, texts |-> <<>>],
   [shapes |-> <<[id |-> b + 3, type |-> "blur", x |-> 0]>>, texts |-> <<>>],
   [shapes |-> <<[id |-> b + 4, type |-> "blur", x |-> 0],
                 [id |-> b + 3, type |-> "blur", x |-> 0]>>, texts |-> <<>>],
   [shapes |-> <<[id |-> b + 4, type |-> "rect", x |-> 0],
                 [id |-> b + 3, type |-> "blur", x |-> 0]>>,
    texts |-> <<[id |-> b + 5, x |-> 0, text |-> <<"a">>]>>]}

\* Project tabs a file may hold: up to one step (id b+2) next to the shapes
\* and texts above on a tab with id b+1; drawOrder absent or one of fileOrders
projectTabs(b) ==
  {[id |-> b + 1, name |-> "Screenshot", imageDataURL |-> img, thumbnail |-> th,
    stepIndicators |-> st, shapes |-> an.shapes, textAnnotations |-> an.texts,
    nextStepNumber |-> Len(st) + 1, drawOrder |-> d] :
     img \in {"imgA"}, th \in {"thumbA"},
     st \in {<<>>, <<[id |-> b + 2, x |-> 0, label |-> "1.", style |-> "decimal"]>>},
     an \in fileShapesAndTexts(b),
     d \in {<<>>} \cup {<<o>> : o \in fileOrders(b)}}

\* The documents the user may pick: any of the tabs above under the current
\* version, one whose activeTabId is the id of none of its tabs, and a few
\* under another version
projectFiles(b) ==
  {[version |-> IPAINT_VERSION, activeTabId |-> pt.id, tabs |-> <<pt>>] :
     pt \in projectTabs(b)}
  \cup
  {[version |-> IPAINT_VERSION, activeTabId |-> b + 6, tabs |-> <<pt>>] :
     pt \in {p \in projectTabs(b) : /\ p.stepIndicators # <<>> /\ p.shapes = <<>>
                                    /\ p.drawOrder = <<>>}}
  \cup
  {[version |-> IPAINT_VERSION + 1, activeTabId |-> pt.id, tabs |-> <<pt>>] :
     pt \in {p \in projectTabs(b) : /\ p.shapes = <<>> /\ p.textAnnotations = <<>>
                                    /\ p.drawOrder = <<>>}}

\* Variant: the document is dispatched whatever its version
handleOpenProject_anyVersion(s, project) ==
  reducer(s, [type |-> "LOAD_PROJECT", project |-> project])

\* handleOpenProject once the document is parsed: the state it leaves
handleOpenProject(s, project) ==
  IF project.version # IPAINT_VERSION THEN s
  ELSE reducer(s, [type |-> "LOAD_PROJECT", project |-> project])

\* The ids of a file are not generateId's: they lie above every id the
\* session hands out
LoadProject ==
  /\ Budget
  /\ \E project \in projectFiles(MaxIds) :
       /\ openedProject' = project
       /\ state' = handleOpenProject(state, project)
  /\ UNCHANGED <<idGen, multiIds, dragVars, overlayVars, drawVars, textInput,
                 windowListeners, toolbarVars>>

NextLoad ==
  \/ LoadProject
  \/ RemoveAnnotation
  \/ ReorderAnnotation
  \/ CommitImageChange
  \/ Undo
  \/ Redo

SpecLoad == Init /\ [][NextLoad]_vars

-----------------------------------------------------------------------------
(* Long histories: one tab, one step placed on it at any moment, and       *)
(* PUSH_UNDO, UNDO and REDO as often as the user likes. The stacks bound   *)
(* themselves.                                                             *)

FirstTab == state.tabs = <<>> /\ AddTab

FirstStep == idGen = 1 /\ AddStepIndicator

PushUndoRepeated == pushUndoDispatch /\ UNCHANGED ops

UndoRepeated ==
  /\ \E t \in ActiveTab : Len(undoStackOf(state, t)) > 0
  /\ undoDispatch
  /\ UNCHANGED ops

RedoRepeated ==
  /\ \E t \in ActiveTab : Len(redoStackOf(state, t)) > 0
  /\ redoDispatch
  /\ UNCHANGED ops

NextHist ==
  \/ FirstTab
  \/ FirstStep
  \/ PushUndoRepeated
  \/ UndoRepeated
  \/ RedoRepeated

SpecHist == Init /\ [][NextHist]_vars

-----------------------------------------------------------------------------
(* Step numbering: the step tool, the style selector, removal, undo, redo  *)

\* Toolbar: the step style selector
SetStepStyle ==
  /\ Budget
  /\ \E style \in {"decimal", "roman"} :
       /\ style # state.stepStyle
       /\ dispatch([type |-> "SET_STEP_STYLE", style |-> style])
  /\ UNCHANGED <<idGen, canvasVars>>

NextSteps ==
  \/ FirstTab
  \/ SetStepStyle
  \/ AddStepIndicator
  \/ RemoveAnnotation
  \/ Undo
  \/ Redo

SpecSteps == Init /\ [][NextSteps]_vars

-----------------------------------------------------------------------------
(* components/CanvasEditor.tsx: the pointer and key handlers of the select *)
(* and step tools. Hit-testing is a choice of one annotation of the active *)
(* tab, or none; the pointer goes down on the annotation's anchor, so the  *)
(* drag offsets are 0.                                                     *)

\* findKindById / the kind findAnnotationAt reports
kindOf(s, t, id) ==
  IF HasId(Get(s.stepIndicators, t, <<>>), id) THEN "step"
  ELSE IF HasId(Get(s.shapes, t, <<>>), id) THEN "shape"
  ELSE IF HasId(Get(s.textAnnotations, t, <<>>), id) THEN "text"
  ELSE "null"

elementOf(s, t, id) ==
  LET all == Get(s.stepIndicators, t, <<>>) \o Get(s.shapes, t, <<>>)
               \o Get(s.textAnnotations, t, <<>>)
  IN all[CHOOSE i \in 1..Len(all) : all[i].id = id]

\* the MultiDragItem list: selected ids that still name an annotation
multiDragItems(s, t, ids) ==
  LET live == SelectSeq(ids, LAMBDA id : kindOf(s, t, id) # "null")
  IN [i \in 1..Len(live) |->
        [kind |-> kindOf(s, t, live[i]), id |-> live[i], ox |-> elementOf(s, t, live[i]).x]]

\* findAnnotationAt: the annotations of the tab a pointer position can hit
findAnnotationAt(s, t) ==
  Range(Ids(Get(s.textAnnotations, t, <<>>))) \cup Range(Ids(Get(s.stepIndicators, t, <<>>)))
    \cup Range(Ids(Get(s.shapes, t, <<>>)))

\* findAnnotationsInRect: the annotations inside some rectangle, steps first,
\* then shapes, then texts, each in array order
findAnnotationsInRect(s, t) ==
  LET all == Ids(Get(s.stepIndicators, t, <<>>)) \o Ids(Get(s.shapes, t, <<>>))
               \o Ids(Get(s.textAnnotations, t, <<>>))
  IN {SelectSeq(all, LAMBDA id : id \in inside) : inside \in SUBSET Range(all)}

isRubberBanding == "rubberBand" \in windowListeners

\* handleMouseDown gets past its overlay branch: no overlay, or the pointer is
\* off the handles and outside the overlay while it is not in crop mode
pointerPastOverlay == ~(overlay /\ overlayCropMode)

\* Toolbar buttons and tool hotkeys, with the effect that clears the
\* selection when the tool is no longer select. While the text editor is
\* open the hotkeys are off and a click on the toolbar first blurs the editor
SetToolOf(tools) ==
  /\ Budget
  /\ ~textInput.present
  /\ \E tool \in tools :
       /\ tool # state.tool
       /\ dispatch([type |-> "SET_TOOL", tool |-> tool])
       /\ multiIds' = IF tool # "select" THEN <<>> ELSE multiIds
  /\ UNCHANGED <<idGen, dragVars, overlayVars, drawVars, textInput, windowListeners,
                 openedProject, toolbarVars>>

SetTool == SetToolOf({"select", "step"})

SetAnyTool == SetToolOf(Tools)

\* Variant: committing the overlay goes through the crop action
commitOverlay_cropping(s, t, img) ==
  reducer(s, [type |-> "CROP_IMAGE", tabId |-> t, imageDataURL |-> img,
              thumbnail |-> ""])

\* commitOverlay: the base image with the overlay drawn on it becomes the
\* tab's image
commitOverlay(s, t, img) ==
  reducer(s, [type |-> "COMMIT_IMAGE_CHANGE", tabId |-> t, imageDataURL |-> img,
              thumbnail |-> ""])

\* Ctrl+V of a clipboard image onto a tab that has an image: a pending
\* overlay is committed first, then the pasted image becomes the overlay
PasteOverlay ==
  /\ Budget
  /\ ~textInput.present
  /\ \E t \in ActiveTab :
       /\ Truthy(FindTab(state, t).imageDataURL)
       /\ IF overlay THEN \E img \in Images : state' = commitOverlay(state, t, img)
          ELSE state' = state
  /\ overlay' = TRUE
  /\ overlayTab' = state.activeTabId
  /\ overlayCropMode' = IF overlay THEN FALSE ELSE overlayCropMode
  /\ overlayCropRegion' = IF overlay THEN NoRegion ELSE overlayCropRegion
  /\ UNCHANGED <<idGen, multiIds, dragVars, overlayDragging, overlayLoading, drawVars, textInput,
                 windowListeners, openedProject, toolbarVars>>

\* the Crop button of the overlay actions
OverlayCropButton ==
  /\ Budget
  /\ overlay /\ ~overlayCropMode
  /\ overlayCropMode' = TRUE
  /\ UNCHANGED <<state, idGen, multiIds, dragVars, overlay, overlayCropRegion,
                 overlayDragging, pasteVars, drawVars, textInput, windowListeners, openedProject, toolbarVars>>

\* handleMouseDown, overlay in crop mode: a crop region starts inside it
MouseDownOverlayCrop ==
  /\ Budget
  /\ ActiveTab # {}
  /\ overlay /\ overlayCropMode
  /\ \E x \in Pos : overlayCropRegion' = regionAt(x, 0)
  /\ windowListeners' = windowListeners \cup {"overlayCrop"}
  /\ UNCHANGED <<state, idGen, multiIds, dragVars, overlay, overlayCropMode,
                 overlayDragging, pasteVars, drawVars, textInput, openedProject, toolbarVars>>

\* handleMouseDown on a corner handle of the overlay: a resize starts
MouseDownOverlayHandle ==
  /\ Budget
  /\ ActiveTab # {}
  /\ overlay /\ ~overlayCropMode
  /\ windowListeners' = windowListeners \cup {"overlayResize"}
  /\ UNCHANGED <<state, idGen, multiIds, dragVars, overlayVars, drawVars, textInput,
                 openedProject, toolbarVars>>

\* handleMouseDown inside the overlay: the overlay is dragged
MouseDownInsideOverlay ==
  /\ Budget
  /\ ActiveTab # {}
  /\ overlay /\ ~overlayCropMode
  /\ overlayDragging' = TRUE
  /\ UNCHANGED <<state, idGen, multiIds, dragVars, overlay, pasteVars, overlayCropMode,
                 overlayCropRegion, drawVars, textInput, windowListeners, openedProject, toolbarVars>>

\* handleMouseDown, select tool, Ctrl/Shift held: toggle the hit annotation
MouseDownAdditive ==
  /\ pointerPastOverlay
  /\ state.tool = "select"
  /\ \E t \in ActiveTab :
       \E id \in findAnnotationAt(state, t) :
         LET newIds == IF id \in Range(multiIds)
                       THEN SelectSeq(multiIds, LAMBDA m : m # id)
                       ELSE Append(multiIds, id)
         IN /\ multiIds' = newIds
            /\ dispatch(IF Len(newIds) = 1
                        THEN [type |-> "SET_SELECTION", id |-> newIds[1],
                              kind |-> kindOf(state, t, newIds[1])]
                        ELSE [type |-> "SET_SELECTION", id |-> NoId, kind |-> "null"])
  /\ UNCHANGED <<idGen, ops, dragVars, overlayVars, drawVars, textInput, windowListeners,
                 openedProject, toolbarVars>>

\* handleMouseDown, select tool, on one of several selected annotations:
\* a multi-drag starts
MouseDownOnMultiSelected ==
  /\ Budget
  /\ pointerPastOverlay
  /\ state.tool = "select"
  /\ Len(multiIds) > 1
  /\ \E t \in ActiveTab :
       \E id \in findAnnotationAt(state, t) \cap Range(multiIds) :
         /\ dispatch([type |-> "PUSH_UNDO", tabId |-> t])
         /\ multiDrag' = [active |-> TRUE, startX |-> elementOf(state, t, id).x,
                          items |-> multiDragItems(state, t, multiIds)]
  /\ isDraggingAnnotation' = TRUE
  /\ moveEvents' = 0
  /\ UNCHANGED <<idGen, multiIds, dragTarget, overlayVars, drawVars, textInput,
                 windowListeners, openedProject, toolbarVars>>

\* handleMouseDown, select tool, on an annotation that is not part of a
\* multi-selection: select it and start a drag (or a resize, on a shape's corner)
MouseDownOnAnnotation ==
  /\ Budget
  /\ pointerPastOverlay
  /\ state.tool = "select"
  /\ \E t \in ActiveTab :
       \E id \in findAnnotationAt(state, t) :
         /\ ~(id \in Range(multiIds) /\ Len(multiIds) > 1)
         /\ state' = reducer(reducer(state,
                        [type |-> "SET_SELECTION", id |-> id, kind |-> kindOf(state, t, id)]),
                        [type |-> "PUSH_UNDO", tabId |-> t])
         /\ multiIds' = <<id>>
         /\ \E handle \in IF kindOf(state, t, id) = "shape" THEN {"body", "corner"}
                          ELSE {"null"} :
              dragTarget' = [kind |-> kindOf(state, t, id), id |-> id, handle |-> handle]
  /\ isDraggingAnnotation' = TRUE
  /\ moveEvents' = 0
  /\ UNCHANGED <<idGen, multiDrag, overlayVars, drawVars, textInput, windowListeners,
                 openedProject, toolbarVars>>

\* handleMouseDown, select tool, on empty canvas: the selection is cleared
\* and a rubber band starts
MouseDownOnEmpty ==
  /\ Budget
  /\ pointerPastOverlay
  /\ state.tool = "select"
  /\ ActiveTab # {}
  /\ multiIds' = <<>>
  /\ dispatch([type |-> "SET_SELECTION", id |-> NoId, kind |-> "null"])
  /\ windowListeners' = windowListeners \cup {"rubberBand"}
  /\ UNCHANGED <<idGen, dragVars, overlayVars, drawVars, textInput, openedProject, toolbarVars>>

\* handleMouseDown with the rect, arrow or blur tool: a shape drawing starts
MouseDownDraw ==
  /\ Budget
  /\ pointerPastOverlay
  /\ ActiveTab # {}
  /\ state.tool \in ShapeTools
  /\ isDrawing' = TRUE
  /\ \E x \in Pos : drawingShape' = regionAt(x, 0)
  /\ UNCHANGED <<state, idGen, multiIds, dragVars, overlayVars, cropRegion, textInput,
                 windowListeners, openedProject, toolbarVars>>

\* handleMouseDown with the crop tool: a crop region starts
MouseDownCrop ==
  /\ Budget
  /\ pointerPastOverlay
  /\ ActiveTab # {}
  /\ state.tool = "crop"
  /\ \E x \in Pos : cropRegion' = regionAt(x, 0)
  /\ windowListeners' = windowListeners \cup {"crop"}
  /\ UNCHANGED <<state, idGen, multiIds, dragVars, overlayVars, isDrawing, drawingShape,
                 textInput, openedProject, toolbarVars>>

\* the region with its second corner at the pointer
draggedTo(region, dx, dy) ==
  IF region.present THEN [region EXCEPT !.x2 = region.x1 + dx, !.y2 = region.y1 + dy]
  ELSE NoRegion

\* the region a window mouseup keeps: none if it is smaller than min both ways
keptRegion(region, min) ==
  IF ~region.present THEN NoRegion
  ELSE IF abs(region.x2 - region.x1) < min /\ abs(region.y2 - region.y1) < min THEN NoRegion
  ELSE region

\* window mousemove of the overlay-crop gesture
OverlayCropMove ==
  /\ "overlayCrop" \in windowListeners
  /\ \E dx \in Extents, dy \in Extents :
       overlayCropRegion' = draggedTo(overlayCropRegion, dx, dy)
  /\ UNCHANGED <<state, idGen, ops, multiIds, dragVars, overlay, overlayCropMode,
                 overlayDragging, pasteVars, drawVars, textInput, windowListeners, openedProject, toolbarVars>>

\* window mouseup of the overlay-crop gesture
OverlayCropUp ==
  /\ "overlayCrop" \in windowListeners
  /\ windowListeners' = windowListeners \ {"overlayCrop"}
  /\ overlayCropRegion' = keptRegion(overlayCropRegion, 3)
  /\ UNCHANGED <<state, idGen, ops, multiIds, dragVars, overlay, overlayCropMode,
                 overlayDragging, pasteVars, drawVars, textInput, openedProject, toolbarVars>>

\* window mouseup of the overlay resize
OverlayResizeUp ==
  /\ "overlayResize" \in windowListeners
  /\ windowListeners' = windowListeners \ {"overlayResize"}
  /\ UNCHANGED <<state, idGen, ops, multiIds, dragVars, overlayVars, drawVars, textInput,
                 openedProject, toolbarVars>>

\* window mouseup of the rubber band: what the rectangle holds is selected
RubberBandUp ==
  /\ isRubberBanding
  /\ windowListeners' = windowListeners \ {"rubberBand"}
  /\ \E found \in IF ActiveTab = {} THEN {<<>>}
                  ELSE UNION {findAnnotationsInRect(state, t) : t \in ActiveTab} :
       /\ multiIds' = found
       /\ dispatch(IF Len(found) = 1
                   THEN [type |-> "SET_SELECTION", id |-> found[1],
                         kind |-> kindOf(state, state.activeTabId, found[1])]
                   ELSE [type |-> "SET_SELECTION", id |-> NoId, kind |-> "null"])
  /\ UNCHANGED <<idGen, ops, dragVars, overlayVars, drawVars, textInput, openedProject, toolbarVars>>

\* window mousemove of the crop gesture
CropMove ==
  /\ "crop" \in windowListeners
  /\ \E dx \in Extents, dy \in Extents : cropRegion' = draggedTo(cropRegion, dx, dy)
  /\ UNCHANGED <<state, idGen, ops, multiIds, dragVars, overlayVars, isDrawing,
                 drawingShape, textInput, windowListeners, openedProject, toolbarVars>>

\* window mouseup of the crop gesture
CropUp ==
  /\ "crop" \in windowListeners
  /\ windowListeners' = windowListeners \ {"crop"}
  /\ cropRegion' = keptRegion(cropRegion, 5)
  /\ UNCHANGED <<state, idGen, ops, multiIds, dragVars, overlayVars, isDrawing,
                 drawingShape, textInput, openedProject, toolbarVars>>

\* Variant of a pointer move during a drag, with the skipUndo flag it sends
MouseMoveWith(skip) ==
  /\ ~isRubberBanding
  /\ ~(overlayDragging /\ overlay)
  /\ isDraggingAnnotation
  /\ moveEvents < MaxMoves
  /\ \E t \in ActiveTab, x \in Pos :
       IF multiDrag.active
       THEN LET dx == x - multiDrag.startX
                of(kind) == SelectSeq(multiDrag.items, LAMBDA i : i.kind = kind)
                moves(kind) == [i \in 1..Len(of(kind)) |->
                                  [id |-> of(kind)[i].id, x |-> of(kind)[i].ox + dx]]
            IN dispatch([type |-> "BATCH_MOVE", tabId |-> t, steps |-> moves("step"),
                         shapes |-> moves("shape"), texts |-> moves("text"),
                         skipUndo |-> skip])
       ELSE IF dragTarget.kind = "step"
       THEN dispatch([type |-> "UPDATE_STEP_INDICATOR", tabId |-> t, id |-> dragTarget.id,
                      changes |-> [x |-> x], skipUndo |-> skip])
       ELSE IF dragTarget.kind = "text"
       THEN dispatch([type |-> "UPDATE_TEXT_ANNOTATION", tabId |-> t, id |-> dragTarget.id,
                      changes |-> [x |-> x], skipUndo |-> skip])
       ELSE IF dragTarget.kind = "shape" /\ HasId(Get(state.shapes, t, <<>>), dragTarget.id)
       THEN dispatch([type |-> "UPDATE_SHAPE", tabId |-> t, id |-> dragTarget.id,
                      changes |-> [x |-> x], skipUndo |-> skip])
       ELSE state' = state
  /\ moveEvents' = moveEvents + 1
  /\ UNCHANGED <<idGen, ops, multiIds, isDraggingAnnotation, dragTarget, multiDrag,
                 overlayVars, drawVars, textInput, windowListeners, openedProject, toolbarVars>>

\* Variant: the moves of a drag push history like any other update
MouseMovePushingUndo == MouseMoveWith(FALSE)

\* handleMouseMove while an annotation drag is in progress
MouseMove == MouseMoveWith(TRUE)

\* handleMouseMove while a shape is drawn and nothing is dragged
MouseMoveDrawing ==
  /\ ~isRubberBanding
  /\ ~(overlayDragging /\ overlay)
  /\ ~isDraggingAnnotation
  /\ isDrawing /\ drawingShape.present
  /\ \E dx \in Extents, dy \in Extents : drawingShape' = draggedTo(drawingShape, dx, dy)
  /\ UNCHANGED <<state, idGen, ops, multiIds, dragVars, overlayVars, isDrawing, cropRegion,
                 textInput, windowListeners, openedProject, toolbarVars>>

\* handleMouseUp ending an overlay drag
MouseUpOverlayDrag ==
  /\ overlayDragging
  /\ overlayDragging' = FALSE
  /\ UNCHANGED <<state, idGen, ops, multiIds, dragVars, overlay, pasteVars, overlayCropMode,
                 overlayCropRegion, drawVars, textInput, windowListeners, openedProject, toolbarVars>>

\* handleMouseUp ending an annotation drag
MouseUp ==
  /\ ~overlayDragging
  /\ isDraggingAnnotation
  /\ isDraggingAnnotation' = FALSE
  /\ dragTarget' = NoDragTarget
  /\ multiDrag' = NoMultiDrag
  /\ UNCHANGED <<state, idGen, ops, multiIds, moveEvents, overlayVars, drawVars, textInput,
                 windowListeners, openedProject, toolbarVars>>

\* Variant: a drawn shape is kept whatever its extent
exceedsMinimum_always(shape) == TRUE

\* dx > 5 || dy > 5
exceedsMinimum(shape) ==
  abs(shape.x2 - shape.x1) > 5 \/ abs(shape.y2 - shape.y1) > 5

\* handleMouseUp ending a shape drawing: the shape is added if it is large enough
MouseUpDrawing ==
  /\ ~overlayDragging
  /\ ~isDraggingAnnotation
  /\ isDrawing /\ drawingShape.present
  /\ \E t \in ActiveTab :
       IF exceedsMinimum(drawingShape)
       THEN /\ idGen < MaxIds
            /\ dispatch([type |-> "ADD_SHAPE", tabId |-> t,
                         shape |-> [id |-> generateId, type |-> state.tool,
                                    x |-> drawingShape.x1]])
            /\ idGen' = idGen + 1
       ELSE UNCHANGED <<state, idGen>>
  /\ isDrawing' = FALSE
  /\ drawingShape' = NoRegion
  /\ UNCHANGED <<ops, multiIds, dragVars, overlayVars, cropRegion, textInput,
                 windowListeners, openedProject, toolbarVars>>

\* handleMouseLeave: overlay drag, annotation drag and shape drawing end,
\* unless a rubber band is in progress
MouseLeave ==
  /\ ~isRubberBanding
  /\ overlayDragging \/ isDraggingAnnotation \/ isDrawing
  /\ overlayDragging' = FALSE
  /\ isDraggingAnnotation' = FALSE
  /\ dragTarget' = IF isDraggingAnnotation THEN NoDragTarget ELSE dragTarget
  /\ multiDrag' = IF isDraggingAnnotation THEN NoMultiDrag ELSE multiDrag
  /\ isDrawing' = FALSE
  /\ drawingShape' = IF isDrawing THEN NoRegion ELSE drawingShape
  /\ UNCHANGED <<state, idGen, ops, multiIds, moveEvents, overlay, pasteVars, overlayCropMode,
                 overlayCropRegion, cropRegion, textInput, windowListeners, openedProject, toolbarVars>>

\* handleCanvasClick outside a pending overlay that is not in crop mode:
\* the overlay is committed
CanvasClickOutsideOverlay ==
  /\ overlay /\ ~overlayCropMode
  /\ \E t \in ActiveTab, img \in Images :
       /\ Truthy(FindTab(state, t).imageDataURL)
       /\ state' = commitOverlay(state, t, img)
  /\ overlay' = FALSE
  /\ overlayCropMode' = FALSE
  /\ overlayCropRegion' = NoRegion
  /\ overlayTab' = NoId
  /\ UNCHANGED <<idGen, ops, multiIds, dragVars, overlayDragging, overlayLoading, drawVars, textInput,
                 windowListeners, openedProject, toolbarVars>>

\* handleCanvasClick with the step tool
CanvasClickStep ==
  /\ ~overlay
  /\ state.tool = "step"
  /\ AddStepIndicator

\* settings.textFontSize (its default) and the sizes the Toolbar's slider
\* is moved to
textFontSize == 16

FontSizes == {textFontSize, 48}

\* text.split('\n') as the lengths of the lines
RECURSIVE lineLengths(_)
lineLengths(text) ==
  IF \E i \in 1..Len(text) : text[i] = "\n"
  THEN LET i == CHOOSE k \in 1..Len(text) :
                  text[k] = "\n" /\ \A j \in 1..(k - 1) : text[j] # "\n"
       IN <<i - 1>> \o lineLengths(SubSeq(text, i + 1, Len(text)))
  ELSE <<Len(text)>>

\* ctx.measureText(line || ' ').width in tenths of a pixel, for a font whose
\* glyphs advance by 0.6 em
measureText(n, fs) == (IF n = 0 THEN 1 ELSE n) * fs * 6

\* measureTextAnnotation at scale 1, in tenths of a pixel (padX 6, padY 3,
\* lineHeight 1.2 fs)
measureTextAnnotation(text, fontSize) ==
  LET lines == lineLengths(text)
      maxW == Max2(0, CHOOSE w \in {measureText(lines[i], fontSize) : i \in 1..Len(lines)} :
                        \A i \in 1..Len(lines) : measureText(lines[i], fontSize) <= w)
  IN [width |-> maxW + 2 * 60, height |-> fontSize * 12 * Len(lines) + 2 * 30]

\* commitTextInput: the state it leaves, for a trimmed value and a fresh id
commitTextInput(s, t, input, id) ==
  LET trimmed == trim(input.value)
  IN IF input.editingId # NoId
     THEN IF trimmed # <<>>
          THEN reducer(s, [type |-> "UPDATE_TEXT_ANNOTATION", tabId |-> t,
                           id |-> input.editingId, changes |-> [text |-> trimmed],
                           skipUndo |-> FALSE])
          ELSE s
     ELSE IF trimmed = <<>> THEN s
     ELSE LET dims == measureTextAnnotation(trimmed, textFontSize)
          IN reducer(s, [type |-> "ADD_TEXT_ANNOTATION", tabId |-> t,
                         annotation |-> [id |-> id, x |-> input.x, text |-> trimmed,
                                         fontSize |-> textFontSize,
                                         width |-> dims.width, height |-> dims.height]])

\* commitTextInput makes a new annotation
createsText(input) == input.editingId = NoId /\ trim(input.value) # <<>>

\* Enter in the text editor, its blur, or a canvas click with the text tool
\* while the editor is open
CommitTextInput ==
  /\ textInput.present
  /\ IF ActiveTab = {} THEN UNCHANGED <<state, idGen>>
     ELSE \E t \in ActiveTab :
            /\ createsText(textInput) => idGen < MaxIds
            /\ state' = commitTextInput(state, t, textInput, generateId)
            /\ idGen' = IF createsText(textInput) THEN idGen + 1 ELSE idGen
  /\ textInput' = NoTextInput
  /\ UNCHANGED <<ops, multiIds, dragVars, overlayVars, drawVars, windowListeners,
                 openedProject, toolbarVars>>

\* handleCanvasClick with the text tool and no editor open: the editor opens
CanvasClickText ==
  /\ Budget
  /\ ~overlay
  /\ ActiveTab # {}
  /\ state.tool = "text"
  /\ ~textInput.present
  /\ \E x \in Pos :
       textInput' = [present |-> TRUE, x |-> x, editingId |-> NoId, value |-> <<>>]
  /\ UNCHANGED <<state, idGen, multiIds, dragVars, overlayVars, drawVars, windowListeners,
                 openedProject, toolbarVars>>

\* handleDoubleClick on a text annotation: the editor opens on its text
DoubleClickText ==
  /\ Budget
  /\ \E t \in ActiveTab :
       \E ta \in Range(Get(state.textAnnotations, t, <<>>)) :
         textInput' = [present |-> TRUE, x |-> ta.x, editingId |-> ta.id, value |-> ta.text]
  /\ UNCHANGED <<state, idGen, multiIds, dragVars, overlayVars, drawVars, windowListeners,
                 openedProject, toolbarVars>>

\* onChange of the text editor
TextChange ==
  /\ textInput.present
  /\ \E v \in TextValues \ {textInput.value} : textInput' = [textInput EXCEPT !.value = v]
  /\ UNCHANGED <<state, idGen, ops, multiIds, dragVars, overlayVars, drawVars,
                 windowListeners, openedProject, toolbarVars>>

\* applyCrop gives up on a region narrower or lower than 2 pixels
cropTooSmall(region) ==
  abs(region.x2 - region.x1) < 2 \/ abs(region.y2 - region.y1) < 2

\* keydown Enter outside the text editor: overlay crop, overlay commit, or crop
EnterKey ==
  /\ ~textInput.present
  /\ IF overlay /\ overlayCropMode /\ overlayCropRegion.present
     THEN \* applyOverlayCrop: the overlay is replaced by its cropped part
          /\ overlayCropMode' = FALSE
          /\ overlayCropRegion' = NoRegion
          /\ UNCHANGED <<state, overlay, cropRegion>>
     ELSE IF overlay /\ ~overlayCropMode
     THEN /\ \E t \in ActiveTab, img \in Images :
               /\ Truthy(FindTab(state, t).imageDataURL)
               /\ state' = commitOverlay(state, t, img)
          /\ overlay' = FALSE
          /\ overlayCropMode' = FALSE
          /\ overlayCropRegion' = NoRegion
          /\ UNCHANGED cropRegion
     ELSE /\ cropRegion.present
          /\ \E t \in ActiveTab :
               /\ Truthy(FindTab(state, t).imageDataURL)
               /\ IF cropTooSmall(cropRegion) THEN state' = state
                  ELSE \E img \in Images :
                         dispatch([type |-> "CROP_IMAGE", tabId |-> t,
                                   imageDataURL |-> img, thumbnail |-> ""])
          /\ cropRegion' = NoRegion
          /\ UNCHANGED <<overlay, overlayCropMode, overlayCropRegion>>
  /\ overlayTab' = IF overlay' THEN overlayTab ELSE NoId
  /\ UNCHANGED <<idGen, ops, multiIds, dragVars, overlayDragging, overlayLoading, isDrawing, drawingShape,
                 textInput, windowListeners, openedProject, toolbarVars>>

\* keydown Escape: the text editor closes (its own handler), and the window
\* handler leaves overlay crop mode, cancels the overlay, cancels the crop
\* region, or goes back to the select tool, whichever comes first
EscapeKey ==
  /\ textInput' = NoTextInput
  /\ IF overlay /\ overlayCropMode
     THEN /\ overlayCropMode' = FALSE
          /\ overlayCropRegion' = NoRegion
          /\ UNCHANGED <<state, overlay, cropRegion>>
     ELSE IF overlay
     THEN /\ overlay' = FALSE
          /\ overlayCropMode' = FALSE
          /\ overlayCropRegion' = NoRegion
          /\ UNCHANGED <<state, cropRegion>>
     ELSE IF cropRegion.present
     THEN /\ cropRegion' = NoRegion
          /\ UNCHANGED <<state, overlay, overlayCropMode, overlayCropRegion>>
     ELSE IF textInput.present
     THEN UNCHANGED <<state, overlay, overlayCropMode, overlayCropRegion, cropRegion>>
     ELSE /\ state.tool # "select"
          /\ dispatch([type |-> "SET_TOOL", tool |-> "select"])
          /\ UNCHANGED <<overlay, overlayCropMode, overlayCropRegion, cropRegion>>
  /\ overlayTab' = IF overlay' THEN overlayTab ELSE NoId
  /\ UNCHANGED <<idGen, ops, multiIds, dragVars, overlayDragging, overlayLoading, isDrawing, drawingShape,
                 windowListeners, openedProject, toolbarVars>>

\* for (const id of ids) dispatch(REMOVE_ANNOTATION ...)
RECURSIVE removeEach(_, _, _)
removeEach(s, t, ids) ==
  IF ids = <<>> THEN s
  ELSE removeEach(reducer(s, [type |-> "REMOVE_ANNOTATION", tabId |-> t,
                              annotationId |-> Head(ids)]),
                  t, Tail(ids))

\* keydown Delete / Backspace with the select tool
DeleteKey ==
  /\ Budget
  /\ ~textInput.present
  /\ state.tool = "select"
  /\ \E t \in ActiveTab :
       IF Len(multiIds) > 0
       THEN /\ state' = reducer(removeEach(state, t, multiIds),
                                [type |-> "SET_SELECTION", id |-> NoId, kind |-> "null"])
            /\ multiIds' = <<>>
       ELSE /\ state.selectedId # NoId
            /\ state' = reducer(reducer(state,
                           [type |-> "REMOVE_ANNOTATION", tabId |-> t,
                            annotationId |-> state.selectedId]),
                           [type |-> "SET_SELECTION", id |-> NoId, kind |-> "null"])
            /\ multiIds' = multiIds
  /\ UNCHANGED <<idGen, dragVars, overlayVars, drawVars, textInput, windowListeners,
                 openedProject, toolbarVars>>

NextUI ==
  \/ FirstTab
  \/ AddShapes
  \/ SetTool
  \/ CanvasClickStep
  \/ MouseDownAdditive
  \/ MouseDownOnMultiSelected
  \/ MouseDownOnAnnotation
  \/ MouseDownOnEmpty
  \/ RubberBandUp
  \/ MouseMove
  \/ MouseUp
  \/ MouseLeave
  \/ DeleteKey
  \/ Undo
  \/ Redo

SpecUI == Init /\ [][NextUI]_vars

-----------------------------------------------------------------------------
(* The canvas with every tool: pasted overlays, shape drawing, crop        *)
(* regions and the inline text editor, next to selection and dragging.     *)

NextCanvas ==
  \/ FirstTab
  \/ AddShapes
  \/ SetAnyTool
  \/ PasteOverlay
  \/ OverlayCropButton
  \/ MouseDownOverlayCrop
  \/ MouseDownOverlayHandle
  \/ MouseDownInsideOverlay
  \/ MouseDownOnAnnotation
  \/ MouseDownOnEmpty
  \/ MouseDownDraw
  \/ MouseDownCrop
  \/ OverlayCropMove
  \/ OverlayCropUp
  \/ OverlayResizeUp
  \/ RubberBandUp
  \/ CropMove
  \/ CropUp
  \/ MouseMove
  \/ MouseMoveDrawing
  \/ MouseUpOverlayDrag
  \/ MouseUp
  \/ MouseUpDrawing
  \/ MouseLeave
  \/ CanvasClickOutsideOverlay
  \/ CanvasClickStep
  \/ CanvasClickText
  \/ DoubleClickText
  \/ TextChange
  \/ CommitTextInput
  \/ EnterKey
  \/ EscapeKey

SpecCanvas == Init /\ [][NextCanvas]_vars

-----------------------------------------------------------------------------
(* Observations shared by the properties *)

sceneOf(s, t) ==
  [stepIndicators |-> Get(s.stepIndicators, t, <<>>),
   shapes |-> Get(s.shapes, t, <<>>),
   textAnnotations |-> Get(s.textAnnotations, t, <<>>),
   drawOrder |-> Get(s.drawOrder, t, <<>>),
   nextStepNumber |-> Get(s.nextStepNumber, t, 1)]

imageOf(s, t) == IF HasTab(s, t) THEN FindTab(s, t).imageDataURL ELSE UNDEF

\* scene, base image and both history stacks of a tab
tabView(s, t) ==
  [scene |-> sceneOf(s, t), image |-> imageOf(s, t),
   history |-> Get(s.history, t, EmptyHistory)]

annotationIds(s, t) ==
  Ids(Get(s.stepIndicators, t, <<>>)) \o Ids(Get(s.shapes, t, <<>>))
    \o Ids(Get(s.textAnnotations, t, <<>>))

occurrences(seq, v) == Cardinality({i \in 1..Len(seq) : seq[i] = v})

-----------------------------------------------------------------------------
(* C1: in every reachable state and for every tab, an id is in the tab's   *)
(* drawOrder exactly when it is the id of exactly one annotation in        *)
(* exactly one of the tab's three collections, and no id is in drawOrder   *)
(* twice.                                                                  *)

C1_DrawOrderInSync ==
  \A t \in TabIds(state) :
    LET order == Get(state.drawOrder, t, <<>>)
        ids == annotationIds(state, t)
    IN /\ \A id \in Range(order) \cup Range(ids) :
            id \in Range(order) <=> occurrences(ids, id) = 1
       /\ \A id \in Range(order) : occurrences(order, id) = 1

-----------------------------------------------------------------------------
(* C2: UNDO then REDO (undo stack non-empty), and REDO then UNDO (redo     *)
(* stack non-empty), put the tab's scene, base image and both history      *)
(* stacks back exactly, also for snapshots that carry a raster image.      *)

C2_UndoRedoRoundTrip ==
  \A t \in TabIds(state) :
    /\ Len(undoStackOf(state, t)) > 0 =>
         tabView(REDO(UNDO(state, [tabId |-> t]), [tabId |-> t]), t) = tabView(state, t)
    /\ Len(redoStackOf(state, t)) > 0 =>
         tabView(UNDO(REDO(state, [tabId |-> t]), [tabId |-> t]), t) = tabView(state, t)

-----------------------------------------------------------------------------
(* C3: one drag, resize or multi-drag gesture (pointer down on an          *)
(* annotation, any number of moves, pointer up) adds exactly one entry to  *)
(* the tab's undo stack, and that entry is the scene at pointer down: the  *)
(* pointer-down pushes the scene it finds, and no move, pointer-up or      *)
(* pointer-leave touches the history.                                      *)

C3_OneUndoEntryPerGesture ==
  [][\A t \in ActiveTab :
       /\ (MouseDownOnAnnotation \/ MouseDownOnMultiSelected) =>
            /\ undoStackOf(state', t) = Append(undoStackOf(state, t), snapshot(state, t))
            /\ sceneOf(state', t) = sceneOf(state, t)
       /\ (MouseMove \/ MouseUp \/ MouseLeave) =>
            Get(state'.history, t, EmptyHistory) = Get(state.history, t, EmptyHistory)]_vars

\* a finished multi-drag of two shapes with MaxMoves moves: both shapes have
\* moved, and the one entry on top of the entry of their creation holds them
\* where they were
C3_Witness ==
  \E t \in ActiveTab :
    /\ ~isDraggingAnnotation
    /\ moveEvents = MaxMoves
    /\ Len(multiIds) = 2
    /\ Len(undoStackOf(state, t)) = 2
    /\ Len(Get(state.shapes, t, <<>>)) = 2
    /\ LET top == undoStackOf(state, t)[2]
       IN /\ Ids(top.shapes) = Ids(state.shapes[t])
          /\ \A i \in 1..2 : top.shapes[i].x # state.shapes[t][i].x

-----------------------------------------------------------------------------
(* C4: right after any dispatch that pushes a history entry for a tab      *)
(* (ADD_*, REMOVE_ANNOTATION, REORDER_ANNOTATION, PUSH_UNDO, CROP_IMAGE,   *)
(* COMMIT_IMAGE_CHANGE, UPDATE_* and BATCH_MOVE without skipUndo) the      *)
(* tab's redo stack is empty.                                              *)

PushingDispatch ==
  \/ AddStepIndicator \/ AddShape \/ AddShapes \/ AddTextAnnotation
  \/ RemoveAnnotation \/ ReorderAnnotation \/ PushUndo
  \/ CropImage \/ CommitImageChange
  \/ UpdateStepIndicatorBy(FALSE) \/ UpdateShapeBy(FALSE)
  \/ UpdateTextAnnotationBy(FALSE) \/ BatchMoveBy(FALSE)

C4_PushClearsRedo ==
  [][PushingDispatch =>
       \A t \in ActiveTab : /\ redoStackOf(state', t) = <<>>
                            /\ Len(undoStackOf(state', t)) > 0]_vars

\* a tab whose redo history was discarded by a later push: annotation 2 was
\* added and undone, then annotation 3 was added
C4_Witness ==
  /\ idGen = 3
  /\ TabIds(state) = {1}
  /\ redoStackOf(state, 1) = <<>>
  /\ Len(undoStackOf(state, 1)) = 1
  /\ Range(Get(state.drawOrder, 1, <<>>)) = {3}

-----------------------------------------------------------------------------
(* C5: the undo stack and the redo stack of a tab never hold more than     *)
(* MAX_HISTORY entries each, also after REDO pushes onto the undo stack;   *)
(* a push onto a full undo stack drops exactly the oldest entry and keeps  *)
(* the other MAX_HISTORY - 1 in order, followed by the new one.            *)

C5_HistoryIsCapped ==
  [][\A t \in ActiveTab :
       /\ Len(undoStackOf(state', t)) <= MAX_HISTORY
       /\ Len(redoStackOf(state', t)) <= MAX_HISTORY
       /\ ((PushUndoRepeated \/ FirstStep) /\ Len(undoStackOf(state, t)) = MAX_HISTORY)
            => undoStackOf(state', t) = Append(Tail(undoStackOf(state, t)), snapshot(state, t))
       /\ (PushUndoRepeated \/ FirstStep)
            => Len(undoStackOf(state', t)) = Min2(Len(undoStackOf(state, t)) + 1, MAX_HISTORY)]_vars

\* a full undo stack that has already lost its oldest entries: the step was
\* placed after the first push, and the empty scenes below it were dropped
C5_Witness ==
  \E t \in TabIds(state) :
    /\ Len(undoStackOf(state, t)) = MAX_HISTORY
    /\ undoStackOf(state, t)[1].drawOrder # <<>>

\* a full redo stack, reached by undoing a full undo stack
C5_WitnessRedo ==
  \E t \in TabIds(state) :
    /\ Len(redoStackOf(state, t)) = MAX_HISTORY
    /\ Len(undoStackOf(state, t)) = 0

-----------------------------------------------------------------------------
(* C6: UNDO on a tab with an empty undo stack or without a history record, *)
(* and REDO on a tab with an empty redo stack, return the state unchanged. *)

C6_EmptyStackNoOp ==
  \A t \in 1..(idGen + 1) :
    /\ (t \notin DOMAIN state.history \/ Len(undoStackOf(state, t)) = 0)
         => UNDO(state, [tabId |-> t]) = state
    /\ (t \notin DOMAIN state.history \/ Len(redoStackOf(state, t)) = 0)
         => REDO(state, [tabId |-> t]) = state

\* a tab with annotations and an empty undo stack next to a non-empty redo stack
C6_Witness ==
  \E t \in TabIds(state) :
    /\ Len(undoStackOf(state, t)) = 0
    /\ Len(redoStackOf(state, t)) > 0
    /\ state.activeTabId = t

-----------------------------------------------------------------------------
(* C7: Delete or Backspace with k >= 1 annotations selected removes all k, *)
(* clears the selection, and adds exactly one entry to the undo stack, so  *)
(* that a single UNDO brings all k back.                                   *)

C7_DeleteIsOneUndoStep ==
  [][(DeleteKey /\ Len(multiIds) >= 1) =>
       \A t \in ActiveTab :
         /\ \A id \in Range(multiIds) : id \notin Range(annotationIds(state', t))
         /\ multiIds' = <<>>
         /\ state'.selectedId = NoId
         /\ Len(undoStackOf(state', t)) = Len(undoStackOf(state, t)) + 1
         /\ sceneOf(UNDO(state', [tabId |-> t]), t) = sceneOf(state, t)]_vars

\* the same with one annotation selected
C7_DeleteOfOneIsOneUndoStep ==
  [][(DeleteKey /\ Len(multiIds) = 1) =>
       \A t \in ActiveTab :
         /\ \A id \in Range(multiIds) : id \notin Range(annotationIds(state', t))
         /\ multiIds' = <<>>
         /\ state'.selectedId = NoId
         /\ Len(undoStackOf(state', t)) = Len(undoStackOf(state, t)) + 1
         /\ sceneOf(UNDO(state', [tabId |-> t]), t) = sceneOf(state, t)]_vars

-----------------------------------------------------------------------------
(* C8: on every tab nextStepNumber is the number of step indicators on the *)
(* tab plus 1, and never below 1.                                          *)

C8_NextStepNumberIsCountPlusOne ==
  \A t \in TabIds(state) :
    /\ t \in DOMAIN state.nextStepNumber
    /\ state.nextStepNumber[t] = Len(Get(state.stepIndicators, t, <<>>)) + 1
    /\ state.nextStepNumber[t] >= 1

\* two steps placed, the first one removed: one step left, counter back at 2
C8_Witness ==
  \E t \in TabIds(state) :
    /\ Len(Get(state.stepIndicators, t, <<>>)) = 1
    /\ Get(state.stepIndicators, t, <<>>)[1].label = "2."
    /\ Get(state.nextStepNumber, t, 0) = 2
    /\ Len(undoStackOf(state, t)) = 3

-----------------------------------------------------------------------------
(* C9: the step tool labels a new indicator with                            *)
(* formatStepLabel(nextStepNumber, stepStyle); after steps 1..n were placed *)
(* and any one of them is removed, the next step placed is labelled n; and  *)
(* the labels stay pairwise distinct and gap-free exactly as long as every  *)
(* step removed was the most recently placed one: placing keeps them so,    *)
(* removing the last one keeps them so, removing any other breaks them.     *)

\* the number a step's label shows
stepNumber(step) ==
  CHOOSE n \in 1..Len(romans) : formatStepLabel(n, step.style) = step.label

\* labels pairwise distinct, and their numbers are 1..k without a gap
WellNumbered(s, t) ==
  LET steps == Get(s.stepIndicators, t, <<>>)
  IN /\ \A i, j \in 1..Len(steps) : i # j => steps[i].label # steps[j].label
     /\ {stepNumber(steps[i]) : i \in 1..Len(steps)} = 1..Len(steps)

C9_StepLabels ==
  [][\A t \in ActiveTab :
       LET steps == Get(state.stepIndicators, t, <<>>)
           after == Get(state'.stepIndicators, t, <<>>)
           n == Len(steps)
       IN /\ AddStepIndicator =>
               /\ Len(after) = n + 1
               /\ after[n + 1].label =
                    formatStepLabel(NumOr1(state.nextStepNumber, t), state.stepStyle)
               /\ WellNumbered(state, t) => WellNumbered(state', t)
          /\ (RemoveAnnotation /\ Len(after) < n /\ WellNumbered(state, t)) =>
               /\ formatStepLabel(NumOr1(state'.nextStepNumber, t), state'.stepStyle)
                    = formatStepLabel(n, state.stepStyle)
               /\ WellNumbered(state', t) <=> ~HasId(after, steps[n].id)]_vars

\* steps 1 and 2 were placed and step 1 was removed: the label the step tool
\* gives next is the 2. that is still on the canvas
C9_Witness ==
  \E t \in ActiveTab :
    /\ Len(Get(state.stepIndicators, t, <<>>)) = 1
    /\ state.stepIndicators[t][1].label =
         formatStepLabel(NumOr1(state.nextStepNumber, t), state.stepStyle)
    /\ stepNumber(state.stepIndicators[t][1]) = 2
    /\ ~WellNumbered(state, t)

-----------------------------------------------------------------------------
(* C10: CROP_IMAGE on an existing tab empties the three collections and    *)
(* drawOrder, replaces the image, adds exactly one undo entry holding the  *)
(* prior image with the prior scene, and the next UNDO restores the prior  *)
(* image, annotations, drawOrder and nextStepNumber exactly.               *)

C10_CropIsReversible ==
  [][CropImage =>
       \A t \in ActiveTab :
         LET undone == UNDO(state', [tabId |-> t])
         IN /\ sceneOf(state', t) =
                 [stepIndicators |-> <<>>, shapes |-> <<>>, textAnnotations |-> <<>>,
                  drawOrder |-> <<>>, nextStepNumber |-> 1]
            /\ imageOf(state', t) \in Images
            /\ undoStackOf(state', t) =
                 Append(undoStackOf(state, t),
                        [snapshot(state, t) EXCEPT !.imageDataURL = imageOf(state, t),
                                                   !.thumbnail = FindTab(state, t).thumbnail])
            /\ sceneOf(undone, t) = sceneOf(state, t)
            /\ imageOf(undone, t) = imageOf(state, t)
            /\ undoStackOf(undone, t) = undoStackOf(state, t)]_vars

\* a cropped tab: empty scene, and the undo entry on top holds annotations and an image
C10_Witness ==
  \E t \in TabIds(state) :
    /\ Len(undoStackOf(state, t)) >= 2
    /\ LET top == undoStackOf(state, t)[Len(undoStackOf(state, t))]
       IN /\ Truthy(top.imageDataURL)
          /\ Len(top.drawOrder) >= 1
          /\ top.imageDataURL # imageOf(state, t)
    /\ Get(state.drawOrder, t, <<0>>) = <<>>
    /\ redoStackOf(state, t) = <<>>

-----------------------------------------------------------------------------
(* C11: while an overlay is pending and not in its crop mode, Escape       *)
(* removes the overlay and leaves the tab's image, scene and both history  *)
(* stacks unchanged; Enter removes the overlay, replaces the tab's image,  *)
(* leaves annotations and drawOrder unchanged, and adds exactly one entry  *)
(* to the undo stack, which carries the scene and the image from before    *)
(* the commit.                                                             *)

overlayPending == overlay /\ ~overlayCropMode

-----------------------------------------------------------------------------
(* C12: while an overlay is pending every pointer event on the canvas is   *)
(* consumed by the overlay: no pointer-down, move, up or click selects,    *)
(* moves, resizes, creates or deletes an annotation, starts a rubber band  *)
(* or a crop region, or pushes a history entry, the one entry of the       *)
(* overlay's commit excepted.                                              *)

PointerDown ==
  \/ MouseDownOverlayCrop \/ MouseDownOverlayHandle \/ MouseDownInsideOverlay
  \/ MouseDownOnAnnotation \/ MouseDownOnEmpty \/ MouseDownDraw \/ MouseDownCrop

PointerEvent ==
  \/ PointerDown
  \/ OverlayCropMove \/ OverlayCropUp \/ OverlayResizeUp \/ RubberBandUp
  \/ CropMove \/ CropUp \/ MouseMove \/ MouseMoveDrawing
  \/ MouseUpOverlayDrag \/ MouseUp \/ MouseUpDrawing \/ MouseLeave
  \/ CanvasClickOutsideOverlay \/ CanvasClickStep \/ CanvasClickText

C12_OverlayConsumesPointerInput ==
  [][(overlay /\ PointerEvent) =>
       /\ state' = state \/ CanvasClickOutsideOverlay
       /\ multiIds' = multiIds
       /\ isDraggingAnnotation' => isDraggingAnnotation
       /\ isDrawing' => isDrawing
       /\ ("rubberBand" \in windowListeners') => isRubberBanding
       /\ cropRegion'.present => cropRegion.present]_vars

-----------------------------------------------------------------------------
(* C13: at most one gesture is in flight at any time (overlay drag,        *)
(* overlay resize, overlay-crop drag, annotation drag or resize,           *)
(* multi-drag, rubber band, shape drawing, crop-region drag), and a        *)
(* pointer-down that arrives while one is in flight starts no second       *)
(* gesture and pushes no second history entry.                             *)

inFlight(dragging, multi, overlayDrag, drawing, listeners) ==
  (IF dragging /\ ~multi.active THEN {"annotationDrag"} ELSE {})
    \cup (IF dragging /\ multi.active THEN {"multiDrag"} ELSE {})
    \cup (IF overlayDrag THEN {"overlayDrag"} ELSE {})
    \cup (IF drawing THEN {"drawing"} ELSE {})
    \cup listeners

gesturesInFlight ==
  inFlight(isDraggingAnnotation, multiDrag, overlayDragging, isDrawing, windowListeners)

C13_OneGestureInFlight ==
  [][/\ Cardinality(gesturesInFlight) <= 1
     /\ (gesturesInFlight # {} /\ PointerDown) =>
          /\ inFlight(isDraggingAnnotation', multiDrag', overlayDragging', isDrawing',
                      windowListeners') = gesturesInFlight
          /\ state'.history = state.history]_vars

-----------------------------------------------------------------------------
(* C14: per-tab isolation. Any reducer action addressed to a tab A (ADD_*, *)
(* UPDATE_*, BATCH_MOVE, REMOVE_ANNOTATION, REORDER_ANNOTATION, PUSH_UNDO, *)
(* UNDO, REDO, CROP_IMAGE, COMMIT_IMAGE_CHANGE) leaves the scene, the      *)
(* image and both history stacks of every other tab B unchanged, and       *)
(* SET_ACTIVE_TAB leaves scene and history of all tabs unchanged.          *)

\* moves of every id handed out so far, whichever tab holds it
movesOfAll(x) == [i \in 1..idGen |-> [id |-> i, x |-> x]]

actionsOn(A) ==
  {[type |-> "ADD_STEP_INDICATOR", tabId |-> A,
    indicator |-> [id |-> generateId, x |-> 0, label |-> "1.", style |-> "decimal"]],
   [type |-> "ADD_SHAPES", tabId |-> A,
    shapes |-> <<[id |-> idGen + 1, type |-> "rect", x |-> 0],
                 [id |-> idGen + 2, type |-> "blur", x |-> 1]>>],
   [type |-> "ADD_TEXT_ANNOTATION", tabId |-> A,
    annotation |-> [id |-> generateId, x |-> 0, text |-> <<"a">>]],
   [type |-> "PUSH_UNDO", tabId |-> A],
   [type |-> "UNDO", tabId |-> A],
   [type |-> "REDO", tabId |-> A]}
  \cup {[type |-> "ADD_SHAPE", tabId |-> A, shape |-> [id |-> generateId, type |-> ty, x |-> 0]] :
          ty \in {"rect", "blur"}}
  \cup {[type |-> ty, tabId |-> A, id |-> id, changes |-> [x |-> x], skipUndo |-> skip] :
          ty \in {"UPDATE_STEP_INDICATOR", "UPDATE_SHAPE", "UPDATE_TEXT_ANNOTATION"},
          id \in 1..idGen, x \in {MaxPos}, skip \in BOOLEAN}
  \cup {[type |-> "BATCH_MOVE", tabId |-> A, steps |-> movesOfAll(x), shapes |-> movesOfAll(x),
         texts |-> movesOfAll(x), skipUndo |-> skip] : x \in {MaxPos}, skip \in BOOLEAN}
  \cup {[type |-> "REMOVE_ANNOTATION", tabId |-> A, annotationId |-> id] : id \in 1..idGen}
  \cup {[type |-> "REORDER_ANNOTATION", tabId |-> A, annotationId |-> id, direction |-> dir] :
          id \in 1..idGen, dir \in {"front", "back"}}
  \cup {[type |-> ty, tabId |-> A, imageDataURL |-> img, thumbnail |-> ""] :
          ty \in {"CROP_IMAGE", "COMMIT_IMAGE_CHANGE"}, img \in Images}

C14_PerTabIsolation ==
  \A A \in TabIds(state), B \in TabIds(state) :
    /\ A # B => \A a \in actionsOn(A) : tabView(reducer(state, a), B) = tabView(state, B)
    /\ tabView(reducer(state, [type |-> "SET_ACTIVE_TAB", id |-> A]), B) = tabView(state, B)

\* two tabs that both hold annotations and history, with different scenes:
\* the active one was changed after the other one was made
C14_Witness ==
  \E A \in ActiveTab, B \in TabIds(state) :
    /\ A # B
    /\ Len(Get(state.drawOrder, B, <<>>)) >= 1
    /\ Len(undoStackOf(state, A)) >= 1
    /\ Len(undoStackOf(state, B)) >= 1
    /\ sceneOf(state, A) # sceneOf(state, B)

-----------------------------------------------------------------------------
(* C15: a rect, arrow or blur draw gesture whose final extent is at most 5 *)
(* both ways leaves the scene and both history stacks unchanged; one that  *)
(* exceeds 5 either way adds exactly one shape, at the end of drawOrder,   *)
(* and exactly one undo entry. A crop drag that stays below 5 both ways    *)
(* leaves no crop region and changes nothing.                              *)

extentX(region) == abs(region.x2 - region.x1)

extentY(region) == abs(region.y2 - region.y1)

C15_SubThresholdGesturesAreDiscarded ==
  [][\A t \in ActiveTab :
       /\ state' # state => ~(MouseDownDraw \/ MouseMoveDrawing \/ MouseDownCrop \/ CropMove)
       /\ (extentX(drawingShape) <= 5 /\ extentY(drawingShape) <= 5 /\ MouseUpDrawing) =>
            /\ tabView(state', t) = tabView(state, t)
            /\ ~drawingShape'.present
       /\ ((extentX(drawingShape) > 5 \/ extentY(drawingShape) > 5) /\ MouseUpDrawing) =>
            /\ Ids(state'.shapes[t]) = Append(Ids(Get(state.shapes, t, <<>>)), generateId)
            /\ state'.drawOrder[t] = Append(Get(state.drawOrder, t, <<>>), generateId)
            /\ Get(state'.stepIndicators, t, <<>>) = Get(state.stepIndicators, t, <<>>)
            /\ Get(state'.textAnnotations, t, <<>>) = Get(state.textAnnotations, t, <<>>)
            /\ undoStackOf(state', t) =
                 Append(sliceFrom(undoStackOf(state, t), 1 - MAX_HISTORY), snapshot(state, t))
       /\ (extentX(cropRegion) < 5 /\ extentY(cropRegion) < 5 /\ CropUp) =>
            /\ ~cropRegion'.present
            /\ state' = state]_vars

\* a drawn shape: the one shape of the tab, added by the one entry of the
\* undo stack, with the draw tool still chosen and the gesture over
C15_Witness ==
  \E t \in ActiveTab :
    /\ state.tool \in ShapeTools
    /\ ~isDrawing /\ ~drawingShape.present
    /\ Len(Get(state.shapes, t, <<>>)) = 1
    /\ Get(state.drawOrder, t, <<>>) = Ids(state.shapes[t])
    /\ Len(undoStackOf(state, t)) = 1
    /\ undoStackOf(state, t)[1].shapes = <<>>

-----------------------------------------------------------------------------
(* C16: committing the inline text editor with an empty or whitespace-only *)
(* value is a no-op: a new text creates no annotation, a text being edited *)
(* stays as it was, and scene and both history stacks are unchanged.       *)
(* Pressing Escape in the text editor changes nothing either.              *)

blank(v) == \A i \in 1..Len(v) : v[i] \in {" ", "\t", "\n"}

C16_EmptyTextCommitIsNoOp ==
  [][/\ (textInput.present /\ blank(textInput.value) /\ CommitTextInput) =>
          /\ state' = state
          /\ ~textInput'.present
     /\ (textInput.present /\ EscapeKey) =>
          /\ state' = state
          /\ ~textInput'.present]_vars

\* the editor is open on the tab's text annotation and its value has been
\* changed to a single blank: the commit and the Escape of the claim start
\* from here, with an annotation and an undo entry to lose
C16_Witness ==
  \E t \in ActiveTab :
    /\ textInput.present
    /\ textInput.value = <<" ">>
    /\ textInput.editingId \in Range(Ids(Get(state.textAnnotations, t, <<>>)))
    /\ Len(undoStackOf(state, t)) = 1

-----------------------------------------------------------------------------
(* C17: opening a project document whose version differs from              *)
(* IPAINT_VERSION is rejected: nothing is dispatched, and tabs, scenes,    *)
(* histories, selection and tool are exactly as before the attempt.        *)

C17_OtherVersionIsRejected ==
  [][state' = state \/ ~(openedProject'.version # IPAINT_VERSION /\ LoadProject)]_vars

\* a document of another version was opened last, on a session that holds a
\* loaded tab with annotations
C17_Witness ==
  /\ openedProject.version # IPAINT_VERSION
  /\ Len(openedProject.tabs) >= 1
  /\ \E t \in ActiveTab : Len(Get(state.drawOrder, t, <<>>)) >= 1

-----------------------------------------------------------------------------
(* C18: a project document of the right version that is malformed (a       *)
(* tab's drawOrder lists an id that is in none of its collections, omits   *)
(* the id of one of its annotations or repeats an id, or activeTabId names *)
(* none of its tabs) is rejected before any state is replaced: the state   *)
(* after the attempt is the state before it.                               *)

fileAnnotationIds(pt) == Ids(pt.stepIndicators) \o Ids(pt.shapes) \o Ids(pt.textAnnotations)

wellFormedOrder(pt) ==
  \/ pt.drawOrder = <<>>
  \/ /\ Range(pt.drawOrder[1]) = Range(fileAnnotationIds(pt))
     /\ Len(pt.drawOrder[1]) = Len(fileAnnotationIds(pt))

malformed(project) ==
  \/ \E i \in 1..Len(project.tabs) : ~wellFormedOrder(project.tabs[i])
  \/ \A i \in 1..Len(project.tabs) : project.tabs[i].id # project.activeTabId

C18_MalformedDocumentIsRejected ==
  [][(/\ openedProject'.version = IPAINT_VERSION
      /\ malformed(openedProject')
      /\ LoadProject) => state' = state]_vars

-----------------------------------------------------------------------------
(* C19: serialization round-trips. For every reachable state s, loading    *)
(* serializeProject(s) gives the same tab list (ids, names, images,        *)
(* thumbnails), the same activeTabId and, for every tab, the same          *)
(* stepIndicators, shapes, textAnnotations, drawOrder and nextStepNumber;  *)
(* all histories are empty, the selection is cleared and the tool is       *)
(* select.                                                                 *)

reloaded(s) == reducer(s, [type |-> "LOAD_PROJECT", project |-> serializeProject(s)])

C19_SerializationRoundTrips ==
  /\ reloaded(state).tabs = state.tabs
  /\ reloaded(state).activeTabId = state.activeTabId
  /\ \A t \in TabIds(state) :
       /\ sceneOf(reloaded(state), t) = sceneOf(state, t)
       /\ t \in DOMAIN reloaded(state).history
       /\ reloaded(state).history[t] = EmptyHistory
  /\ DOMAIN reloaded(state).history = TabIds(state)
  /\ reloaded(state).selectedId = NoId
  /\ reloaded(state).selectedKind = "null"
  /\ reloaded(state).tool = "select"

\* a tab with a step below a shape (not the order a document without
\* drawOrder would be given) and history to lose
C19_Witness ==
  \E t \in ActiveTab :
    /\ Len(Get(state.stepIndicators, t, <<>>)) = 1
    /\ Len(Get(state.shapes, t, <<>>)) = 1
    /\ Get(state.drawOrder, t, <<>>) = Ids(state.stepIndicators[t]) \o Ids(state.shapes[t])
    /\ Len(undoStackOf(state, t)) >= 2

-----------------------------------------------------------------------------
(* C20: when a tab of a loaded project has no drawOrder field, the load    *)
(* gives the tab the ids of its blur shapes (in array order), then of its  *)
(* other shapes, then of its step indicators, then of its text             *)
(* annotations, each id exactly once.                                      *)

\* 1 for a blur shape, 2 for another shape, 3 for a step, 4 for a text
layerOf(pt, id) ==
  IF \E i \in 1..Len(pt.shapes) : pt.shapes[i].id = id /\ pt.shapes[i].type = "blur" THEN 1
  ELSE IF id \in Range(Ids(pt.shapes)) THEN 2
  ELSE IF id \in Range(Ids(pt.stepIndicators)) THEN 3
  ELSE 4

\* where the id stands in the file: shapes, then steps, then texts
placeInFile(pt, id) ==
  LET all == Ids(pt.shapes) \o Ids(pt.stepIndicators) \o Ids(pt.textAnnotations)
  IN CHOOSE k \in 1..Len(all) : all[k] = id

layered(pt, order) ==
  /\ Len(order) = Len(pt.shapes) + Len(pt.stepIndicators) + Len(pt.textAnnotations)
  /\ Range(order) = Range(Ids(pt.shapes)) \cup Range(Ids(pt.stepIndicators))
                      \cup Range(Ids(pt.textAnnotations))
  /\ \A i, j \in 1..Len(order) :
       i < j => \/ layerOf(pt, order[i]) < layerOf(pt, order[j])
                \/ /\ layerOf(pt, order[i]) = layerOf(pt, order[j])
                   /\ placeInFile(pt, order[i]) < placeInFile(pt, order[j])

C20_MissingDrawOrderIsReconstructed ==
  [][\/ \A i \in 1..Len(openedProject'.tabs) :
          LET pt == openedProject'.tabs[i]
          IN pt.drawOrder = <<>> =>
               /\ pt.id \in DOMAIN state'.drawOrder
               /\ layered(pt, state'.drawOrder[pt.id])
     \/ ~(openedProject'.version = IPAINT_VERSION /\ LoadProject)]_vars

\* a document without drawOrder whose tab holds a rect before a blur shape,
\* a step and a text has just been loaded: the blur shape comes first, then
\* the rect, the step and the text
C20_Witness ==
  /\ Len(openedProject.tabs) = 1
  /\ openedProject.tabs[1].drawOrder = <<>>
  /\ Len(openedProject.tabs[1].shapes) = 2
  /\ openedProject.tabs[1].id \in DOMAIN state.drawOrder
  /\ state.shapes[openedProject.tabs[1].id] = openedProject.tabs[1].shapes
  /\ state.drawOrder[openedProject.tabs[1].id] =
       <<MaxIds + 3, MaxIds + 4, MaxIds + 2, MaxIds + 5>>

-----------------------------------------------------------------------------
(* The drawing order of a tab under the reducer's own operations: a project *)
(* is opened at the start of the session (its tab may hold three           *)
(* annotations), then steps are placed, annotations removed and brought to *)
(* the front or sent to the back.                                          *)

NextOrder ==
  \/ ops = 0 /\ LoadProject
  \/ AddStepIndicator
  \/ RemoveAnnotation
  \/ ReorderAnnotation

SpecOrder == Init /\ [][NextOrder]_vars

\* order without id, the others in the order they had
others(order, id) == SelectSeq(order, LAMBDA v : v # id)

orderOf(s, t) == Get(s.drawOrder, t, <<>>)

collectionsOf(s) == <<s.stepIndicators, s.shapes, s.textAnnotations>>

(* C28: REORDER_ANNOTATION 'front' leaves the id last in the tab's          *)
(* drawOrder and 'back' leaves it first, with the other ids in the order   *)
(* they had, the same ids and the three collections untouched; every ADD_* *)
(* appends the new id (ADD_SHAPES the new ids) at the end of drawOrder;     *)
(* REMOVE_ANNOTATION takes exactly that id out and keeps the others in     *)
(* order.                                                                   *)
C28_OrderOperations ==
  \A t \in ActiveTab :
    LET order == orderOf(state, t)
        orderAfter(a) == orderOf(reducer(state, a), t)
        new == idGen + 1
    IN /\ \A id \in Range(order), dir \in {"front", "back"} :
            LET a == [type |-> "REORDER_ANNOTATION", tabId |-> t,
                      annotationId |-> id, direction |-> dir]
                after == orderAfter(a)
            IN /\ Len(after) = Len(order)
               /\ after[IF dir = "front" THEN Len(after) ELSE 1] = id
               /\ others(after, id) = others(order, id)
               /\ Range(after) = Range(order)
               /\ collectionsOf(reducer(state, a)) = collectionsOf(state)
       /\ \A a \in {[type |-> "ADD_STEP_INDICATOR", tabId |-> t,
                     indicator |-> [id |-> new, x |-> 0, label |-> "1.",
                                    style |-> "decimal"]],
                    [type |-> "ADD_SHAPE", tabId |-> t,
                     shape |-> [id |-> new, type |-> "rect", x |-> 0]],
                    [type |-> "ADD_TEXT_ANNOTATION", tabId |-> t,
                     annotation |-> [id |-> new, x |-> 0, text |-> <<"a">>]]} :
            orderAfter(a) = Append(order, new)
       /\ orderAfter([type |-> "ADD_SHAPES", tabId |-> t,
                      shapes |-> <<[id |-> new, type |-> "rect", x |-> 0],
                                   [id |-> new + 1, type |-> "rect", x |-> 1]>>])
            = order \o <<new, new + 1>>
       /\ \A id \in Range(order) :
            orderAfter([type |-> "REMOVE_ANNOTATION", tabId |-> t, annotationId |-> id])
              = others(order, id)

\* an id of a three-annotation tab was sent to the back: the order starts
\* with the text, which the file lists last, and history recorded it
C28_Witness ==
  \E t \in ActiveTab :
    /\ Len(orderOf(state, t)) = 3
    /\ HasId(Get(state.textAnnotations, t, <<>>), orderOf(state, t)[1])
    /\ ~HasId(Get(state.textAnnotations, t, <<>>), orderOf(state, t)[3])
    /\ Len(undoStackOf(state, t)) > 0

-----------------------------------------------------------------------------
(* Toolbar.handleSimplify as the two steps it takes: up to the await of     *)
(* detectTextRegions, and from the detection's completion on. Between the  *)
(* two the user goes on working: tabs are added, switched and closed, a    *)
(* project is opened.                                                       *)

\* The outcomes of detectTextRegions: no region, one, two, or a rejection
detections == {"none", "one", "two", "failed"}

regionCount(d) == IF d = "one" THEN 1 ELSE IF d = "two" THEN 2 ELSE 0

\* regions.map(...): one filled rect per region, each under a fresh id
simplifyShapes(d) ==
  [i \in 1..regionCount(d) |-> [id |-> idGen + i, type |-> "rect", x |-> i - 1]]

\* the Simplify button (disabled while simplifying): handleSimplify up to
\* its await
SimplifyStart ==
  /\ Budget
  /\ ~simplifying
  /\ \E t \in ActiveTab :
       /\ Truthy(FindTab(state, t).imageDataURL)
       /\ simplifyTab' = t
  /\ simplifying' = TRUE
  /\ UNCHANGED <<state, idGen, multiIds, dragVars, overlayVars, drawVars, textInput,
                 windowListeners, openedProject, copying, copyAwait, decodeFailed>>

\* detectTextRegions settles: handleSimplify from its await to its end
SimplifyDone ==
  /\ simplifying
  /\ \E d \in detections :
       /\ idGen + regionCount(d) <= MaxIds
       /\ IF regionCount(d) = 0 THEN UNCHANGED state
          ELSE state' = reducer(reducer(state,
                          [type |-> "ADD_SHAPES", tabId |-> simplifyTab,
                           shapes |-> simplifyShapes(d)]),
                          [type |-> "SET_TOOL", tool |-> "select"])
       /\ idGen' = idGen + regionCount(d)
  /\ simplifying' = FALSE
  /\ UNCHANGED <<ops, simplifyTab, multiIds, dragVars, overlayVars, drawVars, textInput,
                 windowListeners, openedProject, copying, copyAwait, decodeFailed>>

NextSimplify ==
  \/ AddTab
  \/ RemoveTab
  \/ SetActiveTab
  \/ LoadProject
  \/ SimplifyStart
  \/ SimplifyDone

SpecSimplify == Init /\ [][NextSimplify]_vars

(* C21: when the detection of a Simplify completes and the tab it was       *)
(* started on is no longer the active tab (the user switched tabs, closed  *)
(* it, or opened a project meanwhile), no shape is added to any tab and no *)
(* history entry is recorded.                                               *)
C21_StaleDetectionIsDiscarded ==
  [][SimplifyDone /\ simplifyTab # state.activeTabId
       => /\ state'.shapes = state.shapes
          /\ state'.drawOrder = state.drawOrder
          /\ state'.history = state.history]_vars

-----------------------------------------------------------------------------
(* Toolbar.handleCopyToClipboard with compositeExport, step by step: each   *)
(* await is a position of the pending call, left when the awaited promise  *)
(* settles. An Image whose source does not decode fires its error event,   *)
(* and only its load event has a handler.                                   *)

copyVars == <<copying, copyAwait, decodeFailed>>

\* the Copy button (disabled while copying): up to compositeExport's await
\* of the base image
CopyStart ==
  /\ Budget
  /\ ~copying
  /\ \E t \in ActiveTab : Truthy(FindTab(state, t).imageDataURL)
  /\ copying' = TRUE
  /\ copyAwait' = "image"
  /\ decodeFailed' = FALSE
  /\ UNCHANGED <<state, idGen, multiIds, dragVars, overlayVars, drawVars, textInput,
                 windowListeners, openedProject, simplifying, simplifyTab>>

\* i.onload of the base image: the annotations are drawn, then the custom
\* watermark is awaited if the settings name one, else toDataURL and the
\* clipboard write
CopyImageLoaded ==
  /\ copyAwait = "image" /\ ~decodeFailed
  /\ \E watermarkDataURL \in BOOLEAN :
       copyAwait' = IF watermarkDataURL THEN "watermark" ELSE "clipboard"
  /\ UNCHANGED <<state, idGen, ops, multiIds, dragVars, overlayVars, drawVars, textInput,
                 windowListeners, openedProject, simplifying, simplifyTab, copying,
                 decodeFailed>>

\* img.onload of loadWatermark
CopyWatermarkLoaded ==
  /\ copyAwait = "watermark" /\ ~decodeFailed
  /\ copyAwait' = "clipboard"
  /\ UNCHANGED <<state, idGen, ops, multiIds, dragVars, overlayVars, drawVars, textInput,
                 windowListeners, openedProject, simplifying, simplifyTab, copying,
                 decodeFailed>>

\* the error event of either Image: no onerror is set, the promise stays
\* pending and nothing runs
CopyDecodeError ==
  /\ copyAwait \in {"image", "watermark"} /\ ~decodeFailed
  /\ decodeFailed' = TRUE
  /\ UNCHANGED <<state, idGen, ops, multiIds, dragVars, overlayVars, drawVars, textInput,
                 windowListeners, openedProject, simplifying, simplifyTab, copying,
                 copyAwait>>

\* writeClipboardImage settles either way: finally { setCopying(false) }
CopyClipboardSettled ==
  /\ copyAwait = "clipboard"
  /\ copying' = FALSE
  /\ copyAwait' = "none"
  /\ UNCHANGED <<state, idGen, ops, multiIds, dragVars, overlayVars, drawVars, textInput,
                 windowListeners, openedProject, simplifying, simplifyTab, decodeFailed>>

NextCopy ==
  \/ AddTab
  \/ SetActiveTab
  \/ AddStepIndicator
  \/ AddShape
  \/ Undo
  \/ CopyStart
  \/ CopyImageLoaded
  \/ CopyWatermarkLoaded
  \/ CopyDecodeError
  \/ CopyClipboardSettled

SpecCopy == Init /\ [][NextCopy]_vars

(* C27: when the base image or the watermark of a copy fails to decode, the *)
(* copy is aborted: its promise settles and the 'copying' busy state is    *)
(* released, so no copy stays pending on an image that failed.             *)
C27_FailedDecodeAbortsTheCopy ==
  decodeFailed => ~copying /\ copyAwait = "none"

-----------------------------------------------------------------------------
(* Text annotations from their creation on: typed with the text tool, then  *)
(* selected, re-opened by double-click and committed again, or resized     *)
(* with the Toolbar's font-size slider.                                     *)

\* The Size slider of a selected text annotation (Toolbar)
SetTextFontSize ==
  /\ Budget
  /\ state.tool = "select"
  /\ state.selectedKind = "text"
  /\ \E t \in ActiveTab :
       \E ta \in Range(Get(state.textAnnotations, t, <<>>)) :
         /\ ta.id = state.selectedId
         /\ \E size \in FontSizes \ {ta.fontSize} :
              dispatch([type |-> "UPDATE_TEXT_ANNOTATION", tabId |-> t, id |-> ta.id,
                        changes |-> [fontSize |-> size], skipUndo |-> FALSE])
  /\ UNCHANGED <<idGen, canvasVars>>

\* A session that starts with one tab and one text typed onto it
InitText ==
  /\ state = commitTextInput(
               reducer(initialState,
                       [type |-> "ADD_TAB",
                        tab |-> [id |-> 1, name |-> "Screenshot", imageDataURL |-> "imgA",
                                 thumbnail |-> ""]]),
               1, [present |-> TRUE, x |-> 0, editingId |-> NoId, value |-> <<"a">>], 2)
  /\ idGen = 2
  /\ componentInit
  /\ ops = 0

NextText ==
  \/ SetAnyTool
  \/ CanvasClickText
  \/ TextChange
  \/ CommitTextInput
  \/ DoubleClickText
  \/ MouseDownOnAnnotation
  \/ MouseUp
  \/ SetTextFontSize

SpecText == InitText /\ [][NextText]_vars

(* C30: the stored width and height of every text annotation are the       *)
(* measurement of its current text at its current font size, also after    *)
(* its text was edited again or its font size changed.                     *)
C30_CachedSizeIsCurrent ==
  \A t \in TabIds(state) :
    \A ta \in Range(Get(state.textAnnotations, t, <<>>)) :
      LET dims == measureTextAnnotation(ta.text, ta.fontSize)
      IN ta.width = dims.width /\ ta.height = dims.height

-----------------------------------------------------------------------------
(* What each rendering path paints, as the sequence of annotation ids in    *)
(* painting order.                                                          *)

\* blurs -> shapes -> steps -> texts
kindOrder(indicators, shapes, textAnnotations) ==
  Ids(SelectSeq(shapes, LAMBDA sh : sh.type = "blur"))
    \o Ids(SelectSeq(shapes, LAMBDA sh : sh.type # "blur"))
    \o Ids(indicators) \o Ids(textAnnotations)

\* The loop over drawOrder of the live view (no text being edited) and of
\* applyCrop, with their fallback when the order is empty
paintedInDrawOrder(s, t) ==
  LET order == Get(s.drawOrder, t, <<>>)
      indicators == Get(s.stepIndicators, t, <<>>)
      shapes == Get(s.shapes, t, <<>>)
      texts == Get(s.textAnnotations, t, <<>>)
  IN IF Len(order) > 0
     THEN SelectSeq(order, LAMBDA id : HasId(shapes, id) \/ HasId(indicators, id)
                                          \/ HasId(texts, id))
     ELSE kindOrder(indicators, shapes, texts)

\* compositeExport: what it paints for the collections it is handed
compositeExport(indicators, shapes, textAnnotations) ==
  kindOrder(indicators, shapes, textAnnotations)

\* Toolbar.handleCopyToClipboard, handleExportAll and ExportDialog
exportedWithTexts(s, t) ==
  compositeExport(Get(s.stepIndicators, t, <<>>), Get(s.shapes, t, <<>>),
                  Get(s.textAnnotations, t, <<>>))

\* Sidebar.handleExportSingle: the texts handed over are []
handleExportSingle(s, t) ==
  compositeExport(Get(s.stepIndicators, t, <<>>), Get(s.shapes, t, <<>>), <<>>)

\* the tab's drawOrder lists each of its annotations once
orderInSync(s, t) ==
  LET order == Get(s.drawOrder, t, <<>>)
      ids == annotationIds(s, t)
  IN /\ Len(order) = Len(ids)
     /\ Range(order) = Range(ids)
     /\ Cardinality(Range(order)) = Len(order)

(* C22: for a tab whose drawOrder lists its annotations, every rendering    *)
(* path (live view, the flatten of applyCrop, copy to clipboard, Export    *)
(* All, the Export dialog, the sidebar's single-tab Export) paints the     *)
(* annotation ids in exactly the tab's drawOrder, leaving no kind out.     *)
C22_EveryPathPaintsInDrawOrder ==
  \A t \in TabIds(state) :
    orderInSync(state, t)
      => /\ paintedInDrawOrder(state, t) = Get(state.drawOrder, t, <<>>)
         /\ exportedWithTexts(state, t) = Get(state.drawOrder, t, <<>>)
         /\ handleExportSingle(state, t) = Get(state.drawOrder, t, <<>>)

-----------------------------------------------------------------------------
(* Geometry. From here on annotations carry both coordinates, in pixels.   *)
(* A distance d is kept as 400 d * d, which orders distances as Math.hypot *)
(* does and is whole for the text metrics, which have one decimal.          *)

\* settings.stepSize (its default)
stepSize == 28

\* findAnnotationAt: a shape is hit when dist < 20
shapeHitDistance == 20

\* getResizeHandle: handleRadius
handleRadius == 8

sq(n) == n * n

\* Math.hypot(ax - bx, ay - by), squared
hypot2(ax, ay, bx, by) == sq(ax - bx) + sq(ay - by)

Min4(a, b, c, d) == Min2(Min2(a, b), Min2(c, d))

\* Variant: a point inside a rect or blur box is at distance 0 from it
distanceToShape_filled(shape, x, y) ==
  IF shape.type \in {"rect", "blur"}
  THEN LET rx == Min2(shape.x1, shape.x2)
           ry == Min2(shape.y1, shape.y2)
           rw == abs(shape.x2 - shape.x1)
           rh == abs(shape.y2 - shape.y1)
           cx == Max2(rx, Min2(x, rx + rw))
           cy == Max2(ry, Min2(y, ry + rh))
       IN hypot2(x, y, cx, cy)
  ELSE LET dx == shape.x2 - shape.x1
           dy == shape.y2 - shape.y1
           lenSq == dx * dx + dy * dy
           dot == (x - shape.x1) * dx + (y - shape.y1) * dy
       IN IF lenSq = 0 \/ dot <= 0 THEN hypot2(x, y, shape.x1, shape.y1)
          ELSE IF dot >= lenSq THEN hypot2(x, y, shape.x2, shape.y2)
          ELSE hypot2(x, y, shape.x1, shape.y1) - (dot * dot) \div lenSq

\* distanceToShape, squared. For an arrow the foot of the perpendicular is
\* exact when the arrow is horizontal, vertical or diagonal, as the arrows
\* below are
distanceToShape(shape, x, y) ==
  IF shape.type \in {"rect", "blur"}
  THEN LET rx == Min2(shape.x1, shape.x2)
           ry == Min2(shape.y1, shape.y2)
           rw == abs(shape.x2 - shape.x1)
           rh == abs(shape.y2 - shape.y1)
           cx == Max2(rx, Min2(x, rx + rw))
           cy == Max2(ry, Min2(y, ry + rh))
       IN IF x >= rx /\ x <= rx + rw /\ y >= ry /\ y <= ry + rh
          THEN sq(Min4(x - rx, rx + rw - x, y - ry, ry + rh - y))
          ELSE hypot2(x, y, cx, cy)
  ELSE LET dx == shape.x2 - shape.x1
           dy == shape.y2 - shape.y1
           lenSq == dx * dx + dy * dy
           dot == (x - shape.x1) * dx + (y - shape.y1) * dy
       IN IF lenSq = 0 \/ dot <= 0 THEN hypot2(x, y, shape.x1, shape.y1)
          ELSE IF dot >= lenSq THEN hypot2(x, y, shape.x2, shape.y2)
          ELSE hypot2(x, y, shape.x1, shape.y1) - (dot * dot) \div lenSq

NoHit == [id |-> NoId, kind |-> "null", dist |-> 0]

\* What the three loops of findAnnotationAt(x, y) look at, in their order:
\* texts, then steps, then shapes, each array from its start; hit says
\* whether the point is within the kind's threshold
hitCandidates(s, t, x, y) ==
  LET texts == Get(s.textAnnotations, t, <<>>)
      indicators == Get(s.stepIndicators, t, <<>>)
      shapes == Get(s.shapes, t, <<>>)
      textHit(i) ==
        LET ta == texts[i]
            dims == measureTextAnnotation(ta.text, ta.fontSize)
        IN [id |-> ta.id, kind |-> "text", index |-> i,
            dist |-> hypot2(20 * x, 20 * y, 20 * ta.x + dims.width, 20 * ta.y + dims.height),
            hit |-> /\ x >= ta.x /\ 10 * x <= 10 * ta.x + dims.width
                    /\ y >= ta.y /\ 10 * y <= 10 * ta.y + dims.height]
      stepHit(i) ==
        LET ind == indicators[i]
        IN [id |-> ind.id, kind |-> "step", index |-> i,
            dist |-> 400 * hypot2(ind.x, ind.y, x, y),
            hit |-> hypot2(ind.x, ind.y, x, y) < sq(stepSize)]
      shapeHit(i) ==
        LET sh == shapes[i]
        IN [id |-> sh.id, kind |-> "shape", index |-> i,
            dist |-> 400 * distanceToShape(sh, x, y),
            hit |-> distanceToShape(sh, x, y) < sq(shapeHitDistance)]
  IN [i \in 1..Len(texts) |-> textHit(i)]
       \o [i \in 1..Len(indicators) |-> stepHit(i)]
       \o [i \in 1..Len(shapes) |-> shapeHit(i)]

\* Variant: a candidate as close as the closest so far replaces it
RECURSIVE closestFrom_lastWins(_, _, _)
closestFrom_lastWins(candidates, i, closest) ==
  IF i > Len(candidates) THEN closest
  ELSE closestFrom_lastWins(candidates, i + 1,
         IF candidates[i].hit /\ (closest.kind = "null" \/ candidates[i].dist <= closest.dist)
         THEN [id |-> candidates[i].id, kind |-> candidates[i].kind,
               dist |-> candidates[i].dist]
         ELSE closest)

\* if (!closest || dist < closest.dist) closest = ..., candidate by candidate
RECURSIVE closestFrom(_, _, _)
closestFrom(candidates, i, closest) ==
  IF i > Len(candidates) THEN closest
  ELSE closestFrom(candidates, i + 1,
         IF candidates[i].hit /\ (closest.kind = "null" \/ candidates[i].dist < closest.dist)
         THEN [id |-> candidates[i].id, kind |-> candidates[i].kind,
               dist |-> candidates[i].dist]
         ELSE closest)

\* findAnnotationAt(x, y)
findAnnotationAtPoint(s, t, x, y) == closestFrom(hitCandidates(s, t, x, y), 1, NoHit)

\* getResizeHandle for a rect or blur: the handles are named after the
\* corners of the box (x1y1 its top-left), an arrow's after its end points
getResizeHandle(x, y, shape) ==
  LET near(cx, cy) == hypot2(x, y, cx, cy) < sq(handleRadius)
      left == Min2(shape.x1, shape.x2)
      right == Max2(shape.x1, shape.x2)
      top == Min2(shape.y1, shape.y2)
      bottom == Max2(shape.y1, shape.y2)
  IN IF shape.type = "arrow"
     THEN IF near(shape.x1, shape.y1) THEN "x1y1"
          ELSE IF near(shape.x2, shape.y2) THEN "x2y2" ELSE "body"
     ELSE IF near(left, top) THEN "x1y1"
     ELSE IF near(right, bottom) THEN "x2y2"
     ELSE IF near(left, bottom) THEN "x1y2"
     ELSE IF near(right, top) THEN "x2y1"
     ELSE "body"

\* The annotations scenes are made of: two steps 20 px apart, the rectangle
\* (10,10)->(60,60) drawn from its top-left and the same box drawn from its
\* bottom-right, a small blur, a vertical arrow through the second step,
\* and a one-letter text of font size 20 (24 by 30 pixels)
catalogue ==
  <<[kind |-> "step", id |-> 2, x |-> 100, y |-> 100],
    [kind |-> "step", id |-> 3, x |-> 120, y |-> 100],
    [kind |-> "shape", id |-> 4, type |-> "rect",
     x1 |-> 10, y1 |-> 10, x2 |-> 60, y2 |-> 60],
    [kind |-> "shape", id |-> 5, type |-> "rect",
     x1 |-> 60, y1 |-> 60, x2 |-> 10, y2 |-> 10],
    [kind |-> "shape", id |-> 6, type |-> "blur",
     x1 |-> 130, y1 |-> 10, x2 |-> 160, y2 |-> 40],
    [kind |-> "shape", id |-> 7, type |-> "arrow",
     x1 |-> 120, y1 |-> 90, x2 |-> 120, y2 |-> 110],
    [kind |-> "text", id |-> 8, x |-> 100, y |-> 60, text |-> <<"a">>]>>

\* the records the store holds for the members of a scene, in the order
\* they were made
sceneSteps(c) ==
  LET of == SelectSeq(catalogue, LAMBDA a : a.kind = "step" /\ a.id \in c)
  IN [i \in 1..Len(of) |->
        [id |-> of[i].id, x |-> of[i].x, y |-> of[i].y,
         label |-> formatStepLabel(i, "decimal"), style |-> "decimal"]]

sceneShapes(c) ==
  LET of == SelectSeq(catalogue, LAMBDA a : a.kind = "shape" /\ a.id \in c)
  IN [i \in 1..Len(of) |->
        [id |-> of[i].id, type |-> of[i].type,
         x1 |-> of[i].x1, y1 |-> of[i].y1, x2 |-> of[i].x2, y2 |-> of[i].y2]]

sceneTexts(c) ==
  LET of == SelectSeq(catalogue, LAMBDA a : a.kind = "text" /\ a.id \in c)
  IN [i \in 1..Len(of) |->
        LET dims == measureTextAnnotation(of[i].text, 20)
        IN [id |-> of[i].id, x |-> of[i].x, y |-> of[i].y, text |-> of[i].text,
            fontSize |-> 20, width |-> dims.width, height |-> dims.height]]

\* A tab with an image holding the members c of the catalogue, drawn in the
\* order given, the select tool on
sceneState(c, order) ==
  LET s == reducer(initialState,
                   [type |-> "ADD_TAB",
                    tab |-> [id |-> 1, name |-> "Screenshot", imageDataURL |-> "imgA",
                             thumbnail |-> ""]])
  IN [s EXCEPT !.stepIndicators = Put(@, 1, sceneSteps(c)),
               !.shapes = Put(@, 1, sceneShapes(c)),
               !.textAnnotations = Put(@, 1, sceneTexts(c)),
               !.nextStepNumber = Put(@, 1, Len(sceneSteps(c)) + 1),
               !.drawOrder = Put(@, 1, order)]

reversed(seq) == [i \in 1..Len(seq) |-> seq[Len(seq) + 1 - i]]

\* Sessions that start on a scene of one to MaxIds annotations, drawn in
\* the order they were made or in the opposite order, with two gestures
\* of the session's operations left
sceneInit ==
  /\ \E c \in SUBSET Range(Ids(catalogue)) :
       /\ Cardinality(c) \in 1..MaxIds
       /\ \E order \in {Ids(SelectSeq(catalogue, LAMBDA a : a.id \in c)),
                        reversed(Ids(SelectSeq(catalogue, LAMBDA a : a.id \in c)))} :
            state = sceneState(c, order)
  /\ idGen = Len(catalogue) + 1
  /\ componentInit

InitGeom == sceneInit /\ ops = MaxOps - 2

\* Where the pointer goes down: the anchors and centres of the catalogue,
\* the point midway between the two steps, and two corners of the rectangle
Points ==
  {[x |-> 100, y |-> 100], [x |-> 120, y |-> 100],
   [x |-> 35, y |-> 35], [x |-> 145, y |-> 25],
   [x |-> 100 + 12, y |-> 60 + 15],
   [x |-> 110, y |-> 100],
   [x |-> 60, y |-> 60], [x |-> 10, y |-> 10]}

\* Where the pointer is moved to during a gesture
MoveTargets == {[x |-> 120, y |-> 80], [x |-> 40, y |-> 50]}

\* the MultiDragItem list: selected ids that still name an annotation, with
\* the coordinates they have when the gesture starts
multiDragItemsAt(s, t, ids) ==
  LET live == SelectSeq(ids, LAMBDA id : kindOf(s, t, id) # "null")
      item(id) ==
        LET el == elementOf(s, t, id)
        IN IF kindOf(s, t, id) = "shape"
           THEN [kind |-> "shape", id |-> id, ox |-> el.x1, oy |-> el.y1,
                 ox1 |-> el.x1, oy1 |-> el.y1, ox2 |-> el.x2, oy2 |-> el.y2]
           ELSE [kind |-> kindOf(s, t, id), id |-> id, ox |-> el.x, oy |-> el.y]
  IN [i \in 1..Len(live) |-> item(live[i])]

\* dragTargetRef.current for a hit at (x, y)
dragTargetAt(s, t, hit, x, y) ==
  LET el == elementOf(s, t, hit.id)
  IN IF hit.kind = "shape"
     THEN LET handle == getResizeHandle(x, y, el)
              cx == (Min2(el.x1, el.x2) + Max2(el.x1, el.x2)) \div 2
              cy == (Min2(el.y1, el.y2) + Max2(el.y1, el.y2)) \div 2
          IN IF handle = "body"
             THEN [kind |-> "shape", id |-> hit.id, handle |-> "body",
                   offsetX |-> x - cx, offsetY |-> y - cy]
             ELSE [kind |-> "shape", id |-> hit.id, handle |-> handle,
                   offsetX |-> 0, offsetY |-> 0]
     ELSE [kind |-> hit.kind, id |-> hit.id, handle |-> "null",
           offsetX |-> x - el.x, offsetY |-> y - el.y]

\* handleMouseDown at (x, y), select tool, no modifier key, on an annotation
PointerDownAt(x, y) ==
  /\ Budget
  /\ pointerPastOverlay
  /\ state.tool = "select"
  /\ \E t \in ActiveTab :
       LET hit == findAnnotationAtPoint(state, t, x, y)
       IN /\ hit.id # NoId
          /\ IF hit.id \in Range(multiIds) /\ Len(multiIds) > 1
             THEN /\ dispatch([type |-> "PUSH_UNDO", tabId |-> t])
                  /\ multiDrag' = [active |-> TRUE, startX |-> x, startY |-> y,
                                   items |-> multiDragItemsAt(state, t, multiIds)]
                  /\ UNCHANGED <<multiIds, dragTarget>>
             ELSE /\ multiIds' = <<hit.id>>
                  /\ state' = reducer(reducer(state,
                                 [type |-> "SET_SELECTION", id |-> hit.id, kind |-> hit.kind]),
                                 [type |-> "PUSH_UNDO", tabId |-> t])
                  /\ dragTarget' = dragTargetAt(state, t, hit, x, y)
                  /\ UNCHANGED multiDrag
  /\ isDraggingAnnotation' = TRUE
  /\ moveEvents' = 0
  /\ UNCHANGED <<idGen, overlayVars, drawVars, textInput, windowListeners, openedProject,
                 toolbarVars>>

GeomMouseDown == \E p \in Points : PointerDownAt(p.x, p.y)

\* Variant: the shapes of a multi-drag follow the pointer with their first
\* corner only
multiDragMoves_firstCornerOnly(md, kind, x, y) ==
  LET dx == x - md.startX
      dy == y - md.startY
      of == SelectSeq(md.items, LAMBDA i : i.kind = kind)
  IN [i \in 1..Len(of) |->
        IF kind = "shape"
        THEN [id |-> of[i].id, x1 |-> of[i].ox + dx, y1 |-> of[i].oy + dy]
        ELSE [id |-> of[i].id, x |-> of[i].ox + dx, y |-> of[i].oy + dy]]

\* The BATCH_MOVE entries of a multi-drag whose pointer is at (x, y)
multiDragMoves(md, kind, x, y) ==
  LET dx == x - md.startX
      dy == y - md.startY
      of == SelectSeq(md.items, LAMBDA i : i.kind = kind)
  IN [i \in 1..Len(of) |->
        IF kind = "shape"
        THEN [id |-> of[i].id, x1 |-> of[i].ox1 + dx, y1 |-> of[i].oy1 + dy,
              x2 |-> of[i].ox2 + dx, y2 |-> of[i].oy2 + dy]
        ELSE [id |-> of[i].id, x |-> of[i].ox + dx, y |-> of[i].oy + dy]]

\* The changes a resize by a corner handle sends for the pointer at (x, y)
resizeChanges(handle, x, y) ==
  IF handle = "x1y1" THEN [x1 |-> x, y1 |-> y]
  ELSE IF handle = "x2y2" THEN [x2 |-> x, y2 |-> y]
  ELSE IF handle = "x1y2" THEN [x1 |-> x, y2 |-> y]
  ELSE [x2 |-> x, y1 |-> y]

\* handleMouseMove at (x, y) while an annotation drag is in progress
PointerMoveTo(x, y) ==
  /\ ~isRubberBanding
  /\ ~(overlayDragging /\ overlay)
  /\ isDraggingAnnotation
  /\ moveEvents < MaxMoves
  /\ \E t \in ActiveTab :
       IF multiDrag.active
       THEN dispatch([type |-> "BATCH_MOVE", tabId |-> t,
                      steps |-> multiDragMoves(multiDrag, "step", x, y),
                      shapes |-> multiDragMoves(multiDrag, "shape", x, y),
                      texts |-> multiDragMoves(multiDrag, "text", x, y),
                      skipUndo |-> TRUE])
       ELSE IF dragTarget.kind = "step"
       THEN dispatch([type |-> "UPDATE_STEP_INDICATOR", tabId |-> t, id |-> dragTarget.id,
                      changes |-> [x |-> x - dragTarget.offsetX, y |-> y - dragTarget.offsetY],
                      skipUndo |-> TRUE])
       ELSE IF dragTarget.kind = "text"
       THEN dispatch([type |-> "UPDATE_TEXT_ANNOTATION", tabId |-> t, id |-> dragTarget.id,
                      changes |-> [x |-> x - dragTarget.offsetX, y |-> y - dragTarget.offsetY],
                      skipUndo |-> TRUE])
       ELSE IF dragTarget.kind = "shape" /\ HasId(Get(state.shapes, t, <<>>), dragTarget.id)
       THEN LET shape == elementOf(state, t, dragTarget.id)
                cx == (Min2(shape.x1, shape.x2) + Max2(shape.x1, shape.x2)) \div 2
                cy == (Min2(shape.y1, shape.y2) + Max2(shape.y1, shape.y2)) \div 2
                dx == (x - dragTarget.offsetX) - cx
                dy == (y - dragTarget.offsetY) - cy
            IN dispatch([type |-> "UPDATE_SHAPE", tabId |-> t, id |-> dragTarget.id,
                         changes |-> IF dragTarget.handle = "body"
                                     THEN [x1 |-> shape.x1 + dx, y1 |-> shape.y1 + dy,
                                           x2 |-> shape.x2 + dx, y2 |-> shape.y2 + dy]
                                     ELSE resizeChanges(dragTarget.handle, x, y),
                         skipUndo |-> TRUE])
       ELSE state' = state
  /\ moveEvents' = moveEvents + 1
  /\ UNCHANGED <<idGen, ops, multiIds, isDraggingAnnotation, dragTarget, multiDrag,
                 overlayVars, drawVars, textInput, windowListeners, openedProject, toolbarVars>>

GeomMouseMove == \E p \in MoveTargets : PointerMoveTo(p.x, p.y)

\* handleDistributeAction: the AnnotBounds of one annotation, in tenths of a
\* pixel
annotBounds(s, t, id) ==
  LET el == elementOf(s, t, id)
  IN IF kindOf(s, t, id) = "step"
     THEN [id |-> id, left |-> 10 * el.x - 5 * stepSize, right |-> 10 * el.x + 5 * stepSize,
           top |-> 10 * el.y - 5 * stepSize, bottom |-> 10 * el.y + 5 * stepSize]
     ELSE IF kindOf(s, t, id) = "shape"
     THEN [id |-> id, left |-> 10 * Min2(el.x1, el.x2), right |-> 10 * Max2(el.x1, el.x2),
           top |-> 10 * Min2(el.y1, el.y2), bottom |-> 10 * Max2(el.y1, el.y2)]
     ELSE LET dims == measureTextAnnotation(el.text, el.fontSize)
          IN [id |-> id, left |-> 10 * el.x, right |-> 10 * el.x + dims.width,
              top |-> 10 * el.y, bottom |-> 10 * el.y + dims.height]

\* the bounds of the selected ids that still name an annotation
boundsOf(s, t, ids) ==
  LET live == SelectSeq(ids, LAMBDA id : kindOf(s, t, id) # "null")
  IN [i \in 1..Len(live) |-> annotBounds(s, t, live[i])]

\* the near and far edge of a bounds record along the axis distributed on
nearEdge(b, type) == IF type = "horizontal" THEN b.left ELSE b.top
farEdge(b, type) == IF type = "horizontal" THEN b.right ELSE b.bottom

\* bounds.sort((a, b) => a.left - b.left), or by top: a stable sort
sortedBounds(bounds, type) ==
  LET rank(i) == Cardinality({j \in 1..Len(bounds) :
                     \/ nearEdge(bounds[j], type) < nearEdge(bounds[i], type)
                     \/ nearEdge(bounds[j], type) = nearEdge(bounds[i], type) /\ j <= i})
  IN [k \in 1..Len(bounds) |-> bounds[CHOOSE i \in 1..Len(bounds) : rank(i) = k]]

RECURSIVE totalExtent(_, _, _)
totalExtent(sorted, type, n) ==
  IF n = 0 THEN 0
  ELSE totalExtent(sorted, type, n - 1) + (farEdge(sorted[n], type) - nearEdge(sorted[n], type))

\* (span - totalW) before it is divided by bounds.length - 1
slack(sorted, type) ==
  (farEdge(sorted[Len(sorted)], type) - nearEdge(sorted[1], type))
    - totalExtent(sorted, type, Len(sorted))

\* cursor when the loop reaches the i-th of the sorted bounds, times
\* bounds.length - 1
RECURSIVE cursorAt(_, _, _)
cursorAt(sorted, type, i) ==
  IF i = 2 THEN (Len(sorted) - 1) * farEdge(sorted[1], type) + slack(sorted, type)
  ELSE cursorAt(sorted, type, i - 1)
         + (Len(sorted) - 1) * (farEdge(sorted[i - 1], type) - nearEdge(sorted[i - 1], type))
         + slack(sorted, type)

\* dx (or dy) of the i-th of the sorted bounds, in pixels times 10 (n - 1)
shiftOf(sorted, type, i) ==
  cursorAt(sorted, type, i) - (Len(sorted) - 1) * nearEdge(sorted[i], type)

\* every shift of the distribution is a whole number of pixels
wholeShifts(sorted, type) ==
  \A i \in 2..(Len(sorted) - 1) : shiftOf(sorted, type, i) % (10 * (Len(sorted) - 1)) = 0

\* stepMoves, shapeMoves or textMoves of handleDistributeAction
distributeMoves(s, t, ids, type, kind) ==
  LET sorted == sortedBounds(boundsOf(s, t, ids), type)
      middle == SelectSeq([i \in 1..Len(sorted) |-> [i |-> i, id |-> sorted[i].id]],
                          LAMBDA m : m.i > 1 /\ m.i < Len(sorted) /\ kindOf(s, t, m.id) = kind)
      move(m) ==
        LET el == elementOf(s, t, m.id)
            d == shiftOf(sorted, type, m.i) \div (10 * (Len(sorted) - 1))
            dx == IF type = "horizontal" THEN d ELSE 0
            dy == IF type = "horizontal" THEN 0 ELSE d
        IN IF kind = "shape"
           THEN [id |-> m.id, x1 |-> el.x1 + dx, y1 |-> el.y1 + dy,
                 x2 |-> el.x2 + dx, y2 |-> el.y2 + dy]
           ELSE [id |-> m.id, x |-> el.x + dx, y |-> el.y + dy]
  IN [i \in 1..Len(middle) |-> move(middle[i])]

\* the store after handleDistributeAction(type) with ids selected
handleDistributeAction(s, t, ids, type) ==
  IF Len(ids) < 3 \/ Len(boundsOf(s, t, ids)) < 3 THEN s
  ELSE reducer(s, [type |-> "BATCH_MOVE", tabId |-> t,
                   steps |-> distributeMoves(s, t, ids, type, "step"),
                   shapes |-> distributeMoves(s, t, ids, type, "shape"),
                   texts |-> distributeMoves(s, t, ids, type, "text"),
                   skipUndo |-> FALSE])

\* The Distribute buttons of the multi-selection menu, enabled with three
\* or more selected. Positions are whole pixels here, so a distribution
\* whose shifts are not is left out
Distribute ==
  /\ Budget
  /\ ~isDraggingAnnotation /\ ~isRubberBanding
  /\ Len(multiIds) >= 3
  /\ \E t \in ActiveTab : \E type \in {"horizontal", "vertical"} :
       /\ wholeShifts(sortedBounds(boundsOf(state, t, multiIds), type), type)
       /\ state' = handleDistributeAction(state, t, multiIds, type)
  /\ UNCHANGED <<idGen, multiIds, dragVars, overlayVars, drawVars, textInput, windowListeners,
                 openedProject, toolbarVars>>

NextGeom ==
  \/ GeomMouseDown
  \/ GeomMouseMove
  \/ MouseUp
  \/ MouseDownOnEmpty
  \/ RubberBandUp
  \/ Distribute

SpecGeom == InitGeom /\ [][NextGeom]_vars

\* Sessions of one gesture on an annotation: the pointer goes down on it,
\* drags or resizes it, and is released
InitHit == sceneInit /\ ops = MaxOps - 1

NextHit == GeomMouseDown \/ GeomMouseMove \/ MouseUp

SpecHit == InitHit /\ [][NextHit]_vars

-----------------------------------------------------------------------------
(* Hit-testing *)

\* An annotation's centre in twentieths of a pixel: a step's centre, the
\* centre of a shape's box (an arrow's midpoint), the centre of a text's box
centreOf(s, t, id) ==
  LET el == elementOf(s, t, id)
  IN IF kindOf(s, t, id) = "step" THEN [x |-> 20 * el.x, y |-> 20 * el.y]
     ELSE IF kindOf(s, t, id) = "shape"
     THEN [x |-> 10 * (el.x1 + el.x2), y |-> 10 * (el.y1 + el.y2)]
     ELSE LET dims == measureTextAnnotation(el.text, el.fontSize)
          IN [x |-> 20 * el.x + dims.width, y |-> 20 * el.y + dims.height]

\* the annotation is alone on the tab and its centre is a whole pixel
aloneWithWholeCentre(s, t, id) ==
  /\ findAnnotationAt(s, t) = {id}
  /\ centreOf(s, t, id).x % 20 = 0
  /\ centreOf(s, t, id).y % 20 = 0

\* findAnnotationAt at the annotation's centre reports the annotation
hitAtCentre(s, t, id) ==
  findAnnotationAtPoint(s, t, centreOf(s, t, id).x \div 20, centreOf(s, t, id).y \div 20).id = id

\* a rect or blur whose centre is shapeHitDistance or more from its edges
largeBox(s, t, id) ==
  /\ kindOf(s, t, id) = "shape"
  /\ elementOf(s, t, id).type \in {"rect", "blur"}
  /\ Min2(abs(elementOf(s, t, id).x2 - elementOf(s, t, id).x1),
          abs(elementOf(s, t, id).y2 - elementOf(s, t, id).y1)) >= 2 * shapeHitDistance

\* C23 as stated: an annotation of any kind and size that is alone on its tab
\* is reported by findAnnotationAt at its own centre
C23_HitTestingIsReflexive ==
  \A t \in ActiveTab : \A id \in findAnnotationAt(state, t) :
    aloneWithWholeCentre(state, t, id) => hitAtCentre(state, t, id)

\* C23 as amended: an annotation that is alone on its tab is reported by
\* findAnnotationAt at its own centre, except a rect or blur whose shorter
\* side is 40 px or more, which is not
C23_CentreHitUnlessBoxIsLarge ==
  \A t \in ActiveTab : \A id \in findAnnotationAt(state, t) :
    aloneWithWholeCentre(state, t, id)
      => (hitAtCentre(state, t, id) <=> ~largeBox(state, t, id))

\* a rect that was resized to less than 40 px across is alone on the tab and
\* is hit at its centre
C23_Witness ==
  /\ moveEvents > 0
  /\ \E t \in ActiveTab : \E id \in findAnnotationAt(state, t) :
       /\ aloneWithWholeCentre(state, t, id)
       /\ kindOf(state, t, id) = "shape"
       /\ elementOf(state, t, id).type = "rect"
       /\ ~largeBox(state, t, id)
       /\ hitAtCentre(state, t, id)

\* the candidates of findAnnotationAt(x, y) that are within threshold
hitsAt(s, t, x, y) == SelectSeq(hitCandidates(s, t, x, y), LAMBDA c : c.hit)

\* the place of an annotation in the tab's drawOrder, 0 if it has none
drawPos(s, t, id) ==
  LET order == Get(s.drawOrder, t, <<>>)
  IN IF \E i \in 1..Len(order) : order[i] = id
     THEN CHOOSE i \in 1..Len(order) : order[i] = id /\ \A j \in 1..(i - 1) : order[j] # id
     ELSE 0

\* text over shape over step
statedRank(kind) == IF kind = "text" THEN 1 ELSE IF kind = "shape" THEN 2 ELSE 3

\* text over step over shape
scanRank(kind) == IF kind = "text" THEN 1 ELSE IF kind = "step" THEN 2 ELSE 3

\* C24 as stated: of the annotations within threshold of a point
\* findAnnotationAt returns the closest; of those equally close it prefers
\* a text to a shape and a shape to a step, and within a kind the one that
\* comes later in the tab's drawOrder
C24_TiesGoToTextShapeStepThenRecency ==
  \A t \in ActiveTab : \A p \in Points :
    LET hits == hitsAt(state, t, p.x, p.y)
        r == findAnnotationAtPoint(state, t, p.x, p.y)
    IN hits # <<>> =>
         \E i \in 1..Len(hits) :
           /\ hits[i].id = r.id
           /\ \A j \in 1..Len(hits) \ {i} :
                \/ hits[j].dist > hits[i].dist
                \/ /\ hits[j].dist = hits[i].dist
                   /\ \/ statedRank(hits[i].kind) < statedRank(hits[j].kind)
                      \/ /\ hits[i].kind = hits[j].kind
                         /\ drawPos(state, t, hits[i].id) > drawPos(state, t, hits[j].id)

\* C24 as amended: of the annotations within threshold of a point
\* findAnnotationAt returns the closest, and none if there is none; of those
\* equally close it prefers a text to a step and a step to a shape, and
\* within a kind the one that comes first in the tab's array of that kind
C24_TiesGoToTextStepShapeThenArrayOrder ==
  \A t \in ActiveTab : \A p \in Points :
    LET hits == hitsAt(state, t, p.x, p.y)
        r == findAnnotationAtPoint(state, t, p.x, p.y)
    IN IF hits = <<>> THEN r = NoHit
       ELSE \E i \in 1..Len(hits) :
              /\ hits[i].id = r.id /\ hits[i].kind = r.kind /\ hits[i].dist = r.dist
              /\ \A j \in 1..Len(hits) \ {i} :
                   \/ hits[j].dist > hits[i].dist
                   \/ /\ hits[j].dist = hits[i].dist
                      /\ \/ scanRank(hits[i].kind) < scanRank(hits[j].kind)
                         \/ /\ hits[i].kind = hits[j].kind
                            /\ hits[i].index < hits[j].index

\* the pointer went down where a step and a shape are equally close, and
\* the step is what is being dragged
C24_Witness ==
  /\ isDraggingAnnotation
  /\ \E t \in ActiveTab : \E p \in Points :
       LET hits == hitsAt(state, t, p.x, p.y)
       IN /\ \E i, j \in 1..Len(hits) :
               /\ hits[i].kind = "step" /\ hits[j].kind = "shape"
               /\ hits[i].dist = hits[j].dist
               /\ \A k \in 1..Len(hits) : hits[k].dist >= hits[i].dist
          /\ findAnnotationAtPoint(state, t, p.x, p.y).kind = "step"
          /\ dragTarget.id = findAnnotationAtPoint(state, t, p.x, p.y).id

-----------------------------------------------------------------------------
(* Resizing by a corner handle *)

\* the corner of the box diagonally opposite the corner getResizeHandle
\* names handle
oppositeCorner(shape, handle) ==
  LET left == Min2(shape.x1, shape.x2)
      right == Max2(shape.x1, shape.x2)
      top == Min2(shape.y1, shape.y2)
      bottom == Max2(shape.y1, shape.y2)
  IN IF handle = "x1y1" THEN [x |-> right, y |-> bottom]
     ELSE IF handle = "x2y2" THEN [x |-> left, y |-> top]
     ELSE IF handle = "x1y2" THEN [x |-> right, y |-> top]
     ELSE [x |-> left, y |-> bottom]

\* C25 as stated: the first pointer move of a drag that began on a corner
\* handle of a rect or blur puts the corner under the handle at the pointer
\* and leaves the diagonally opposite corner of the box where it was,
\* whatever the direction the shape was drawn in
C25_CornerHandleKeepsOppositeCorner ==
  [][\A t \in ActiveTab :
       (/\ isDraggingAnnotation /\ ~multiDrag.active
        /\ dragTarget.kind = "shape" /\ dragTarget.handle \in {"x1y1", "x2y2", "x1y2", "x2y1"}
        /\ moveEvents = 0 /\ moveEvents' = 1
        /\ elementOf(state, t, dragTarget.id).type \in {"rect", "blur"})
       => LET before == elementOf(state, t, dragTarget.id)
              after == elementOf(state', t, dragTarget.id)
              fixed == oppositeCorner(before, dragTarget.handle)
          IN \E p \in MoveTargets :
               /\ {after.x1, after.x2} = {p.x, fixed.x}
               /\ {after.y1, after.y2} = {p.y, fixed.y}]_vars

-----------------------------------------------------------------------------
(* Distributing a multi-selection *)

\* the bounds record with the other axis' edges only
acrossEdges(b, type) ==
  IF type = "horizontal" THEN <<b.top, b.bottom>> ELSE <<b.left, b.right>>

\* C26 as stated: distributing three or more selected annotations leaves one
\* with the smallest left (top) edge and one with the largest right (bottom)
\* edge unmoved, changes no coordinate of the other axis, makes the gaps
\* between annotations consecutive by left (top) edge equal and records one
\* undo entry; with fewer than three selected it changes nothing
C26_DistributeKeepsTheOutermost ==
  \A t \in ActiveTab : \A type \in {"horizontal", "vertical"} :
    LET before == boundsOf(state, t, multiIds)
        s2 == handleDistributeAction(state, t, multiIds, type)
        after == boundsOf(s2, t, multiIds)
        sorted == sortedBounds(after, type)
        n == Len(before)
    IN IF Len(multiIds) < 3 THEN s2 = state
       ELSE wholeShifts(sortedBounds(before, type), type) =>
              /\ \E i \in 1..n :
                   /\ \A j \in 1..n : nearEdge(before[i], type) <= nearEdge(before[j], type)
                   /\ after[i] = before[i]
              /\ \E i \in 1..n :
                   /\ \A j \in 1..n : farEdge(before[i], type) >= farEdge(before[j], type)
                   /\ after[i] = before[i]
              /\ \A i \in 1..n : acrossEdges(after[i], type) = acrossEdges(before[i], type)
              /\ \A i, j \in 1..(n - 1) :
                   nearEdge(sorted[i + 1], type) - farEdge(sorted[i], type)
                     = nearEdge(sorted[j + 1], type) - farEdge(sorted[j], type)
              /\ Len(undoStackOf(s2, t)) = Len(undoStackOf(state, t)) + 1

-----------------------------------------------------------------------------
(* Dragging a multi-selection *)

\* an annotation record translated by (dx, dy)
translated(el, dx, dy) ==
  IF "x1" \in DOMAIN el
  THEN [el EXCEPT !.x1 = @ + dx, !.y1 = @ + dy, !.x2 = @ + dx, !.y2 = @ + dy]
  ELSE [el EXCEPT !.x = @ + dx, !.y = @ + dy]

\* the array with its selected members translated by (dx, dy)
translatedIn(seq, ids, dx, dy) ==
  [i \in 1..Len(seq) |->
     IF seq[i].id \in Range(ids) THEN translated(seq[i], dx, dy) ELSE seq[i]]

\* the tab as it was when the gesture started: the entry pushed on the undo
\* stack by the pointer-down
atGestureStart(s, t) == undoStackOf(s, t)[Len(undoStackOf(s, t))]

\* C29: during a group drag, after every pointer move each selected
\* annotation is where it was at gesture start plus the pointer's
\* displacement since then, the same for all; the annotations not selected,
\* drawOrder and nextStepNumber are as they were at gesture start
C29_GroupDragTranslatesTheSelection ==
  \A t \in ActiveTab :
    (multiDrag.active /\ isDraggingAnnotation /\ moveEvents > 0) =>
      \E p \in MoveTargets :
        LET dx == p.x - multiDrag.startX
            dy == p.y - multiDrag.startY
            start == atGestureStart(state, t)
        IN /\ Get(state.stepIndicators, t, <<>>)
                = translatedIn(start.stepIndicators, multiIds, dx, dy)
           /\ Get(state.shapes, t, <<>>) = translatedIn(start.shapes, multiIds, dx, dy)
           /\ Get(state.textAnnotations, t, <<>>)
                = translatedIn(start.textAnnotations, multiIds, dx, dy)
           /\ Get(state.drawOrder, t, <<>>) = start.drawOrder
           /\ NumOr1(state.nextStepNumber, t) = start.nextStepNumber

\* a group of a step and a shape, with a third annotation left out of it,
\* has followed the pointer through two moves
C29_Witness ==
  /\ multiDrag.active /\ isDraggingAnnotation /\ moveEvents >= 2
  /\ \E t \in ActiveTab :
       /\ \E id \in Range(multiIds) : kindOf(state, t, id) = "step"
       /\ \E id \in Range(multiIds) : kindOf(state, t, id) = "shape"
       /\ findAnnotationAt(state, t) \ Range(multiIds) # {}
       /\ Get(state.shapes, t, <<>>) # atGestureStart(state, t).shapes

-----------------------------------------------------------------------------
(* Simplify as one undoable action *)

\* the rects handleSimplify makes of n detected regions
detectedRects(n) == [i \in 1..n |-> [id |-> idGen + i, type |-> "rect", x |-> i - 1]]

\* C31: ADD_SHAPES with n >= 1 rects appends the n shapes to the tab's
\* shapes and their ids, in order, to its drawOrder, pushes exactly one undo
\* entry, and one UNDO takes the tab back to the shapes and drawOrder it had
C31_SimplifyIsOneUndoableAction ==
  \A t \in TabIds(state) : \A n \in 1..2 :
    LET added == reducer(state, [type |-> "ADD_SHAPES", tabId |-> t,
                                 shapes |-> detectedRects(n)])
        undone == reducer(added, [type |-> "UNDO", tabId |-> t])
    IN /\ Get(added.shapes, t, <<>>) = Get(state.shapes, t, <<>>) \o detectedRects(n)
       /\ Get(added.drawOrder, t, <<>>)
            = Get(state.drawOrder, t, <<>>) \o [i \in 1..n |-> idGen + i]
       /\ undoStackOf(added, t) = Append(undoStackOf(state, t), snapshot(state, t))
       /\ Get(undone.shapes, t, <<>>) = Get(state.shapes, t, <<>>)
       /\ Get(undone.drawOrder, t, <<>>) = Get(state.drawOrder, t, <<>>)
       /\ undoStackOf(undone, t) = undoStackOf(state, t)
       /\ \A i \in 1..n : ~HasId(Get(undone.shapes, t, <<>>), idGen + i)

\* Simplify has put two rects on a tab, and the undo entry on top of the
\* stack is the tab without the rects
C31_Witness ==
  \E t \in ActiveTab :
    /\ Len(undoStackOf(state, t)) >= 1
    /\ LET top == undoStackOf(state, t)[Len(undoStackOf(state, t))]
       IN /\ Len(Get(state.shapes, t, <<>>)) = Len(top.shapes) + 2
          /\ Len(Get(state.drawOrder, t, <<>>)) = Len(top.drawOrder) + 2
    /\ state.tool = "select"

-----------------------------------------------------------------------------
(* The rubber band *)

\* findAnnotationsInRect(x1, y1, x2, y2) on annotations with both
\* coordinates: steps by their centre, shapes by their box, texts by their
\* measured box; steps first, then shapes, then texts
findAnnotationsInBand(s, t, x1, y1, x2, y2) ==
  LET rx1 == Min2(x1, x2)
      rx2 == Max2(x1, x2)
      ry1 == Min2(y1, y2)
      ry2 == Max2(y1, y2)
      stepIn(ind) == ind.x >= rx1 /\ ind.x <= rx2 /\ ind.y >= ry1 /\ ind.y <= ry2
      shapeIn(sh) ==
        /\ Min2(sh.x1, sh.x2) < rx2 /\ Max2(sh.x1, sh.x2) > rx1
        /\ Min2(sh.y1, sh.y2) < ry2 /\ Max2(sh.y1, sh.y2) > ry1
      textIn(ta) ==
        LET dims == measureTextAnnotation(ta.text, ta.fontSize)
        IN /\ 10 * ta.x + dims.width >= 10 * rx1 /\ ta.x <= rx2
           /\ 10 * ta.y + dims.height >= 10 * ry1 /\ ta.y <= ry2
  IN Ids(SelectSeq(Get(s.stepIndicators, t, <<>>), stepIn))
       \o Ids(SelectSeq(Get(s.shapes, t, <<>>), shapeIn))
       \o Ids(SelectSeq(Get(s.textAnnotations, t, <<>>), textIn))

\* Where a rubber band starts and ends
BandCorners ==
  {[x |-> 0, y |-> 0], [x |-> 90, y |-> 200], [x |-> 200, y |-> 200], [x |-> 115, y |-> 50]}

\* rbUp: the band started at a corner where no annotation is hit and is
\* released at another; what it holds is selected
PointerUpOfBand ==
  /\ isRubberBanding
  /\ windowListeners' = windowListeners \ {"rubberBand"}
  /\ \E t \in ActiveTab : \E from \in BandCorners, to \in BandCorners :
       /\ findAnnotationAtPoint(state, t, from.x, from.y).id = NoId
       /\ LET found == findAnnotationsInBand(state, t, from.x, from.y, to.x, to.y)
          IN /\ multiIds' = found
             /\ dispatch(IF Len(found) = 1
                         THEN [type |-> "SET_SELECTION", id |-> found[1],
                               kind |-> kindOf(state, t, found[1])]
                         ELSE [type |-> "SET_SELECTION", id |-> NoId, kind |-> "null"])
  /\ UNCHANGED <<idGen, ops, dragVars, overlayVars, drawVars, textInput, openedProject,
                 toolbarVars>>

NextBand == MouseDownOnEmpty \/ PointerUpOfBand \/ GeomMouseDown \/ GeomMouseMove \/ MouseUp

SpecBand == InitGeom /\ [][NextBand]_vars

\* the bounds of an annotation and the band have a point in common
touchesBand(b, x1, y1, x2, y2) ==
  /\ b.left <= 10 * Max2(x1, x2) /\ b.right >= 10 * Min2(x1, x2)
  /\ b.top <= 10 * Max2(y1, y2) /\ b.bottom >= 10 * Min2(y1, y2)

\* the bounds of an annotation and the band overlap in more than an edge
overlapsBand(b, x1, y1, x2, y2) ==
  /\ b.left < 10 * Max2(x1, x2) /\ b.right > 10 * Min2(x1, x2)
  /\ b.top < 10 * Max2(y1, y2) /\ b.bottom > 10 * Min2(y1, y2)

\* C32 as stated: a rubber band selects the annotations whose bounds
\* intersect it, of all three kinds (a step by its circle, not its centre),
\* and no annotation whose bounds do not
C32_BandSelectsWhatItIntersects ==
  \A t \in ActiveTab : \A from \in BandCorners, to \in BandCorners :
    LET found == Range(findAnnotationsInBand(state, t, from.x, from.y, to.x, to.y))
    IN \A id \in findAnnotationAt(state, t) :
         /\ overlapsBand(annotBounds(state, t, id), from.x, from.y, to.x, to.y)
              => id \in found
         /\ id \in found
              => touchesBand(annotBounds(state, t, id), from.x, from.y, to.x, to.y)

-----------------------------------------------------------------------------
(* Redo after further changes *)

\* C33: whenever a step other than an UNDO or a REDO changes the scene of a
\* tab, the tab's redo stack is empty after it
C33_SceneChangeClearsRedo ==
  [][\A t \in TabIds(state) :
       (/\ sceneOf(state', t) # sceneOf(state, t)
        /\ state' # reducer(state, [type |-> "UNDO", tabId |-> t])
        /\ state' # reducer(state, [type |-> "REDO", tabId |-> t]))
       => redoStackOf(state', t) = <<>>]_vars

-----------------------------------------------------------------------------
(* The single selection and the multi-selection *)

\* handleKeyDown, Ctrl+D: const offset = 20
duplicateOffset == 20

\* keydown Ctrl+D with the select tool: a copy of the selected annotation is
\* added next to it and selected
DuplicateKey ==
  /\ Budget
  /\ ~textInput.present
  /\ state.tool = "select"
  /\ state.selectedId # NoId
  /\ idGen < MaxIds
  /\ \E t \in ActiveTab :
       LET kind == kindOf(state, t, state.selectedId)
           copy == spread(elementOf(state, t, state.selectedId),
                          [id |-> generateId,
                           x |-> elementOf(state, t, state.selectedId).x + duplicateOffset])
           added == IF kind = "step"
                    THEN [type |-> "ADD_STEP_INDICATOR", tabId |-> t, indicator |-> copy]
                    ELSE IF kind = "shape"
                    THEN [type |-> "ADD_SHAPE", tabId |-> t, shape |-> copy]
                    ELSE [type |-> "ADD_TEXT_ANNOTATION", tabId |-> t, annotation |-> copy]
       IN IF kind = "null" THEN state' = state
          ELSE state' = reducer(reducer(state, added),
                                [type |-> "SET_SELECTION", id |-> generateId, kind |-> kind])
  /\ idGen' = idGen + 1
  /\ UNCHANGED <<multiIds, dragVars, overlayVars, drawVars, textInput, windowListeners,
                 openedProject, toolbarVars>>

\* A session that starts with one tab, one step placed on it, and the
\* select tool
InitSelect ==
  /\ state = reducer(
               reducer(initialState,
                       [type |-> "ADD_TAB",
                        tab |-> [id |-> 1, name |-> "Screenshot", imageDataURL |-> "imgA",
                                 thumbnail |-> ""]]),
               [type |-> "ADD_STEP_INDICATOR", tabId |-> 1,
                indicator |-> [id |-> 2, x |-> 0, label |-> formatStepLabel(1, "decimal"),
                               style |-> "decimal"]])
  /\ idGen = 2
  /\ componentInit
  /\ ops = 0

NextSelect ==
  \/ MouseDownAdditive
  \/ MouseDownOnAnnotation
  \/ MouseDownOnEmpty
  \/ RubberBandUp
  \/ MouseUp
  \/ DeleteKey
  \/ DuplicateKey
  \/ Undo

SpecSelect == InitSelect /\ [][NextSelect]_vars

\* C34: with the select tool, a multi-selection of exactly one id has that
\* id as selectedId, and a multi-selection of none or several has none
C34_SelectionsAgree ==
  state.tool = "select" =>
    IF Len(multiIds) = 1 THEN state.selectedId = multiIds[1]
    ELSE state.selectedId = NoId

\* C35: selectedId, when set, and every id of the multi-selection name an
\* annotation that is in the scene of the active tab
C35_SelectionIsLive ==
  LET live == UNION {findAnnotationAt(state, t) : t \in ActiveTab}
  IN /\ state.selectedId # NoId => state.selectedId \in live
     /\ Range(multiIds) \subseteq live

-----------------------------------------------------------------------------
(* Actions addressed to an annotation that is not there *)

\* C36: REMOVE_ANNOTATION and REORDER_ANNOTATION for an id that is neither
\* an annotation nor in the drawOrder of the tab leave the tab's scene, its
\* undo stack and its redo stack as they are
C36_MissingIdIsNoOp ==
  \A t \in TabIds(state) : \A id \in 1..(MaxIds + 1) :
    (id \notin findAnnotationAt(state, t) /\ indexOf(Get(state.drawOrder, t, <<>>), id) = 0)
      => \A a \in {[type |-> "REMOVE_ANNOTATION", tabId |-> t, annotationId |-> id],
                   [type |-> "REORDER_ANNOTATION", tabId |-> t, annotationId |-> id,
                    direction |-> "front"],
                   [type |-> "REORDER_ANNOTATION", tabId |-> t, annotationId |-> id,
                    direction |-> "back"]} :
           /\ sceneOf(reducer(state, a), t) = sceneOf(state, t)
           /\ undoStackOf(reducer(state, a), t) = undoStackOf(state, t)
           /\ redoStackOf(reducer(state, a), t) = redoStackOf(state, t)

-----------------------------------------------------------------------------
(* Tabs and the state kept for them *)

\* C37: the ids that have step indicators, shapes, texts, a drawOrder, a
\* history or a step counter are the ids of the tabs
C37_PerTabStateIsOfTabs ==
  /\ DOMAIN state.stepIndicators = TabIds(state)
  /\ DOMAIN state.shapes = TabIds(state)
  /\ DOMAIN state.textAnnotations = TabIds(state)
  /\ DOMAIN state.drawOrder = TabIds(state)
  /\ DOMAIN state.history = TabIds(state)
  /\ DOMAIN state.nextStepNumber = TabIds(state)

\* the index of the tab with the id in s.tabs
tabIndex(s, id) == CHOOSE i \in 1..Len(s.tabs) : s.tabs[i].id = id

\* C38: activeTabId is null exactly when there are no tabs and otherwise
\* the id of a tab; closing the active tab activates the tab that takes its
\* place (the last tab if it was last), closing another tab leaves
\* activeTabId as it is
C38_ActiveTabIsATab ==
  /\ state.activeTabId = NoId <=> state.tabs = <<>>
  /\ state.activeTabId # NoId => state.activeTabId \in TabIds(state)
  /\ \A t \in TabIds(state) :
       LET closed == reducer(state, [type |-> "REMOVE_TAB", id |-> t])
           i == tabIndex(state, t)
       IN IF t # state.activeTabId THEN closed.activeTabId = state.activeTabId
          ELSE IF Len(state.tabs) = 1 THEN closed.activeTabId = NoId
          ELSE IF i = Len(state.tabs)
          THEN closed.activeTabId = state.tabs[i - 1].id
          ELSE closed.activeTabId = state.tabs[i + 1].id

-----------------------------------------------------------------------------
(* Duplicated tabs *)

\* handleDuplicate's action for the tab t, the copy getting the id newId
duplicateOf(s, t, newId) ==
  [type |-> "DUPLICATE_TAB", sourceTabId |-> t,
   newTab |-> [id |-> newId, name |-> "Screenshot copy",
               imageDataURL |-> IF HasTab(s, t) THEN FindTab(s, t).imageDataURL ELSE "",
               thumbnail |-> IF HasTab(s, t) THEN FindTab(s, t).thumbnail ELSE ""]]

\* Actions that carry the tab id t: one of each kind the canvas and the
\* keyboard dispatch, on every annotation of the tab and on an id of none
addressedTo(s, t) ==
  {[type |-> ty, tabId |-> t] : ty \in {"PUSH_UNDO", "UNDO", "REDO"}}
  \cup {[type |-> "ADD_SHAPE", tabId |-> t,
         shape |-> [id |-> MaxIds + 1, type |-> "rect", x |-> 0]],
        [type |-> "ADD_STEP_INDICATOR", tabId |-> t,
         indicator |-> [id |-> MaxIds + 1, x |-> 0,
                        label |-> formatStepLabel(NumOr1(s.nextStepNumber, t), s.stepStyle),
                        style |-> s.stepStyle]],
        [type |-> "ADD_TEXT_ANNOTATION", tabId |-> t,
         annotation |-> [id |-> MaxIds + 1, x |-> 0, text |-> <<"a">>]],
        [type |-> "CROP_IMAGE", tabId |-> t, imageDataURL |-> "imgB", thumbnail |-> ""],
        [type |-> "COMMIT_IMAGE_CHANGE", tabId |-> t, imageDataURL |-> "imgB",
         thumbnail |-> ""]}
  \cup {[type |-> "REMOVE_ANNOTATION", tabId |-> t, annotationId |-> id] :
          id \in Range(Get(s.drawOrder, t, <<>>)) \cup {MaxIds + 1}}
  \cup {[type |-> "REORDER_ANNOTATION", tabId |-> t, annotationId |-> id,
         direction |-> "back"] : id \in Range(Get(s.drawOrder, t, <<>>))}
  \cup {[type |-> "UPDATE_STEP_INDICATOR", tabId |-> t, id |-> id,
         changes |-> [x |-> 1], skipUndo |-> FALSE] :
          id \in Range(Ids(Get(s.stepIndicators, t, <<>>)))}
  \cup {[type |-> "UPDATE_SHAPE", tabId |-> t, id |-> id,
         changes |-> [x |-> 1], skipUndo |-> FALSE] :
          id \in Range(Ids(Get(s.shapes, t, <<>>)))}
  \cup {[type |-> "UPDATE_TEXT_ANNOTATION", tabId |-> t, id |-> id,
         changes |-> [x |-> 1], skipUndo |-> FALSE] :
          id \in Range(Ids(Get(s.textAnnotations, t, <<>>)))}

\* the tab's scene and history are the same in s1 and s2
sameTab(s1, s2, t) ==
  /\ sceneOf(s1, t) = sceneOf(s2, t)
  /\ Get(s1.history, t, EmptyHistory) = Get(s2.history, t, EmptyHistory)

\* C39: DUPLICATE_TAB of a tab adds an active tab with the source's scene and
\* empty undo and redo stacks and leaves the source's scene and history as
\* they are; an action addressed to one tab changes the scene and history of
\* no other tab; DUPLICATE_TAB of an id that is no tab changes nothing
C39_DuplicateIsAnIndependentCopy ==
  /\ \A t \in TabIds(state) :
       LET newId == MaxIds + 2
           dup == reducer(state, duplicateOf(state, t, newId))
       IN /\ dup.activeTabId = newId
          /\ TabIds(dup) = TabIds(state) \cup {newId}
          /\ sceneOf(dup, newId) = sceneOf(state, t)
          /\ Get(dup.history, newId, UNDEF) = EmptyHistory
          /\ \A u \in TabIds(state) : sameTab(dup, state, u)
          /\ \A u \in {t, newId} : \A a \in addressedTo(dup, u) :
               \A v \in TabIds(dup) \ {u} : sameTab(reducer(dup, a), dup, v)
  /\ \A t \in TabIds(state) : \A a \in addressedTo(state, t) :
       \A v \in TabIds(state) \ {t} : sameTab(reducer(state, a), state, v)
  /\ \A t \in (0..(MaxIds + 1)) \ TabIds(state) :
       reducer(state, duplicateOf(state, t, MaxIds + 2)) = state

\* A tab and its duplicate whose scenes have come to differ
C39_Witness ==
  /\ Len(state.tabs) = 2
  /\ state.tabs[2].name = "Screenshot copy"
  /\ sceneOf(state, state.tabs[1].id) # sceneOf(state, state.tabs[2].id)
  /\ sceneOf(state, state.tabs[1].id).drawOrder # <<>>
  /\ undoStackOf(state, state.tabs[1].id) # <<>>

-----------------------------------------------------------------------------
(* Pasting an image onto a tab that has one: the clipboard image is put in  *)
(* an Image object whose onload callback makes it the overlay. The user may *)
(* switch tabs before the callback runs.                                    *)

\* keydown Ctrl+V with an image on the clipboard and an image on the active
\* tab: a pending overlay is committed, and the pasted image starts to
\* decode (one paste at a time)
PasteKey ==
  /\ Budget
  /\ ~textInput.present
  /\ overlayLoading = NoId
  /\ \E t \in ActiveTab :
       /\ Truthy(FindTab(state, t).imageDataURL)
       /\ IF overlay THEN \E img \in Images : state' = commitOverlay(state, t, img)
          ELSE state' = state
       /\ overlayLoading' = t
  /\ overlay' = FALSE
  /\ overlayTab' = NoId
  /\ overlayCropMode' = IF overlay THEN FALSE ELSE overlayCropMode
  /\ overlayCropRegion' = IF overlay THEN NoRegion ELSE overlayCropRegion
  /\ UNCHANGED <<idGen, multiIds, dragVars, overlayDragging, drawVars, textInput,
                 windowListeners, openedProject, toolbarVars>>

\* img.onload of the pasted image: setOverlay
OverlayImageLoaded ==
  /\ overlayLoading # NoId
  /\ overlay' = TRUE
  /\ overlayTab' = overlayLoading
  /\ overlayLoading' = NoId
  /\ UNCHANGED <<state, idGen, ops, multiIds, dragVars, overlayCropMode, overlayCropRegion,
                 overlayDragging, drawVars, textInput, windowListeners, openedProject,
                 toolbarVars>>

\* A click on another tab of the sidebar, and CanvasEditor's effect on the
\* change of state.activeTabId
SwitchTab ==
  /\ Budget
  /\ \E t \in TabIds(state) \ {state.activeTabId} :
       state' = reducer(reducer(state, [type |-> "SET_ACTIVE_TAB", id |-> t]),
                        [type |-> "SET_SELECTION", id |-> NoId, kind |-> "null"])
  /\ overlay' = FALSE
  /\ overlayTab' = NoId
  /\ overlayCropMode' = FALSE
  /\ overlayCropRegion' = NoRegion
  /\ drawingShape' = NoRegion
  /\ cropRegion' = NoRegion
  /\ textInput' = NoTextInput
  /\ multiIds' = <<>>
  /\ UNCHANGED <<idGen, dragVars, overlayDragging, overlayLoading, isDrawing,
                 windowListeners, openedProject, toolbarVars>>

\* A session with a pasted screenshot and its duplicate, the duplicate active
InitPaste ==
  /\ state = reducer(
               reducer(initialState,
                       [type |-> "ADD_TAB",
                        tab |-> [id |-> 1, name |-> "Screenshot", imageDataURL |-> "imgA",
                                 thumbnail |-> ""]]),
               [type |-> "DUPLICATE_TAB", sourceTabId |-> 1,
                newTab |-> [id |-> 2, name |-> "Screenshot copy", imageDataURL |-> "imgA",
                            thumbnail |-> ""]])
  /\ idGen = 2
  /\ componentInit
  /\ ops = 0

NextPaste ==
  \/ PasteKey
  \/ OverlayImageLoaded
  \/ SwitchTab
  \/ OverlayCropButton
  \/ CanvasClickOutsideOverlay
  \/ EnterKey
  \/ EscapeKey
  \/ AddShape
  \/ Undo
  \/ Redo

SpecPaste == InitPaste /\ [][NextPaste]_vars

\* the images of the tabs, in tab order
tabImages(s) == [i \in 1..Len(s.tabs) |-> s.tabs[i].imageDataURL]

\* C40: a pending overlay belongs to the paste issued on the active tab; a
\* change of the active tab leaves no overlay and changes no tab's image or
\* history; and the step that commits an overlay changes the history of the
\* tab the overlay was pasted on and of no other
C40_OverlayStaysOnItsTab ==
  [][/\ overlay' => overlayTab' = state'.activeTabId
     /\ state'.activeTabId # state.activeTabId
          => /\ ~overlay'
             /\ tabImages(state') = tabImages(state)
             /\ state'.history = state.history
     /\ (overlay /\ ~overlay' /\ state'.history # state.history)
          => \A t \in TabIds(state) \ {overlayTab} :
               Get(state'.history, t, EmptyHistory) = Get(state.history, t, EmptyHistory)
    ]_vars

====
